---- MODULE Spec2Model ----
(***************************************************************************)
(* A model of the clortho storage core: the SST writer and reader at the   *)
(* byte level, the per-level iterator, the merging tree iterator and the   *)
(* two file stores (MemoryFileStore and LocalFileStore).                   *)
(*                                                                         *)
(* Files are sequences of bytes (0..255); a file offset o addresses the    *)
(* element o + 1 of the sequence.  Rust Option values are sequences of     *)
(* length 0 (None) or 1 (Some).                                            *)
(***************************************************************************)
EXTENDS Integers, Sequences, FiniteSets, TLC

VARIABLES
    plan,       \* the records the caller is going to push (input of a run)
    writer,     \* SstWriter: file, data_pages, page_offset, current_page
    wstate,     \* "open", "finished" (finish returned) or "panicked"
    pushed,     \* history: the records push_record has accepted so far
    reader,     \* SstReader over the finished file: next_position, key_value
    lastOp,     \* history: the last reader call, the key of the last seek, the
                \* advances since, whether the seek moved a positioned cursor
    tree,       \* TableSnapshot: the levels, each a sequence of NamedSst
    store,      \* MemoryFileStore: identifier -> bytes of the published file
    iter,       \* LsmIter: levels (one LsmLevelIter per level) and heap
    lsmOp,      \* history: the last iterator call and the key of the last seek
    emitted,    \* history: what get() returned after the seek and each advance
    fsKind,     \* which FileStore the run uses: "memory" or "local"
    disk,       \* data_directory: identifier -> inode of the file, 0 if none
    files,      \* the file system's inodes: inode -> bytes of the file
    open_files, \* LocalFileStore.open_files / MemoryFileStore.map:
                \* identifier -> Option of the shared Arc
    arcs,       \* the live Arc<MmapInner> / Arc<[u8]> values, with the number
                \* of readers the callers hold of each
    fwriter,    \* Option of the store writer in flight
    pending,    \* LocalFileStore.open_for_read calls between their read-lock
                \* phase and their write-lock phase, per identifier
    fsLog,      \* history of the file store run
    bufw,       \* SstBufferedWriter: bytes_buffer and pointers, and the history
                \* of what finish handed to the merger and returned
    calc        \* a call of a function of varint.rs or of CounterRecord::merge:
                \* its arguments and what it returned

sstVars == <<plan, writer, wstate, pushed, reader, lastOp>>
lsmVars == <<tree, store, iter, lsmOp, emitted>>
fsVars == <<fsKind, disk, files, open_files, arcs, fwriter, pending, fsLog>>
auxVars == <<bufw, calc>>
vars == <<plan, writer, wstate, pushed, reader, lastOp, tree, store, iter, lsmOp, emitted,
          fsKind, disk, files, open_files, arcs, fwriter, pending, fsLog, bufw, calc>>

----------------------------------------------------------------------------
(* Bounds of the model *)

\* Longest key the caller pushes or seeks in the freely chosen inputs.
MaxKeyLen == 2
\* Number of records the caller pushes when it chooses them freely.
MaxFree == 2

----------------------------------------------------------------------------
(* Byte helpers *)

None == <<>>
Some(x) == <<x>>

Min(a, b) == IF a < b THEN a ELSE b

\* Rust's Ord on byte slices: lexicographic, a proper prefix is smaller.
BytesLess(a, b) ==
    \E i \in 1..(Min(Len(a), Len(b)) + 1) :
        /\ \A j \in 1..(i - 1) : a[j] = b[j]
        /\ IF i <= Len(a) /\ i <= Len(b) THEN a[i] < b[i]
           ELSE i > Len(a) /\ i <= Len(b)

BytesLeq(a, b) == a = b \/ BytesLess(a, b)

\* data[from..], as the elements at offsets from .. to-1
Slice(data, from, to) == SubSeq(data, from + 1, to)

\* i32::to_be_bytes, two's complement, for -2^31 <= p < 2^31
I32ToBe(p) ==
    LET q == IF p >= 0 THEN p ELSE (p + 2147483647) + 1
        top == (q \div 16777216) + (IF p >= 0 THEN 0 ELSE 128)
    IN <<top, (q \div 65536) % 256, (q \div 256) % 256, q % 256>>

\* i32::from_be_bytes of the four bytes at offset o
I32FromBe(data, o) ==
    LET b0 == data[o + 1]
        low == ((b0 % 128) * 16777216) + (data[o + 2] * 65536)
                 + (data[o + 3] * 256) + data[o + 4]
    IN IF b0 >= 128 THEN (low - 2147483647) - 1 ELSE low

\* u32::from_be_bytes(..) as usize, for pointers below 2^31
U32FromBe(data, o) ==
    (data[o + 1] * 16777216) + (data[o + 2] * 65536) + (data[o + 3] * 256) + data[o + 4]

write_varint_unsigned(i) ==
    IF i < 253 THEN <<i>>
    ELSE IF i <= 65535 THEN <<253, i \div 256, i % 256>>
    ELSE <<254>> \o I32ToBe(i)

\* The value read at offset o and the offset of the rest of the buffer.
read_varint_unsigned(data, o) ==
    LET b == data[o + 1]
    IN IF b = 253 THEN [val |-> (data[o + 2] * 256) + data[o + 3], rest |-> o + 3]
       ELSE IF b = 254 THEN [val |-> U32FromBe(data, o + 1), rest |-> o + 5]
       ELSE [val |-> b, rest |-> o + 1]

\* Number of bytes read_varint_unsigned touches at offset o (0 past the end).
VarintWidth(data, o) ==
    IF o >= Len(data) THEN 0
    ELSE IF data[o + 1] = 253 THEN 3
    ELSE IF data[o + 1] = 254 THEN 5
    ELSE 1

----------------------------------------------------------------------------
(* SstWriter *)

SEARCH_TREE_SIZE == 64
LOWER_LEAF_SIZE == 16

HEADER ==
    << 99, 108, 111, 114, 116, 104, 111, 10,
       100, 97, 116, 97, 10,
       118, 49, 10,
       10, 10, 10, 10, 10, 10,
       45, 45, 45, 10 >>

\* PageData::default()
DefaultPage == [min |-> <<>>, max |-> <<>>, pointer |-> 0]

SstWriter_new ==
    [file |-> HEADER, data_pages |-> <<>>, page_offset |-> 0,
     current_page |-> DefaultPage]

SstWriter_size(w) == Len(w.file)

\* push_record with the record pointer taken after the record was written.
SstWriter_push_record_pointer_after(w, record_key, record_value) ==
    LET file1 == w.file \o write_varint_unsigned(Len(record_key))
                        \o write_varint_unsigned(Len(record_value))
                        \o record_key \o record_value
        record_pointer == 0 - Len(file1)
        page1 == IF w.page_offset = 0
                 THEN [w.current_page EXCEPT !.min = record_key,
                                             !.pointer = record_pointer]
                 ELSE w.current_page
        page2 == [page1 EXCEPT !.max = record_key]
        offset1 == w.page_offset + 1
    IN IF offset1 = LOWER_LEAF_SIZE
       THEN [file |-> file1, data_pages |-> Append(w.data_pages, page2),
             page_offset |-> 0, current_page |-> DefaultPage]
       ELSE [file |-> file1, data_pages |-> w.data_pages,
             page_offset |-> offset1, current_page |-> page2]

SstWriter_push_record(w, record_key, record_value) ==
    LET record_pointer == 0 - SstWriter_size(w)
        file1 == w.file \o write_varint_unsigned(Len(record_key))
                        \o write_varint_unsigned(Len(record_value))
                        \o record_key \o record_value
        page1 == IF w.page_offset = 0
                 THEN [w.current_page EXCEPT !.min = record_key,
                                             !.pointer = record_pointer]
                 ELSE w.current_page
        page2 == [page1 EXCEPT !.max = record_key]
        offset1 == w.page_offset + 1
    IN IF offset1 = LOWER_LEAF_SIZE
       THEN [file |-> file1, data_pages |-> Append(w.data_pages, page2),
             page_offset |-> 0, current_page |-> DefaultPage]
       ELSE [file |-> file1, data_pages |-> w.data_pages,
             page_offset |-> offset1, current_page |-> page2]

common_prefix_len(a, b) ==
    LET m == Min(Len(a), Len(b))
        diff == {i \in 1..m : a[i] # b[i]}
    IN IF diff = {} THEN m
       ELSE (CHOOSE i \in diff : \A j \in diff : i <= j) - 1

\* The concatenation of seqs[lo], .., seqs[hi].
RECURSIVE Concat(_, _, _)
Concat(seqs, lo, hi) ==
    IF lo > hi THEN <<>>
    ELSE IF lo = hi THEN seqs[lo]
    ELSE LET mid == (lo + hi) \div 2
         IN Concat(seqs, lo, mid) \o Concat(seqs, mid + 1, hi)

\* The pivot cut from right_val, length-prefixed as it is written: the first
\* n bytes of right_val.  Slicing right_val past its end panics, shown as
\* no bytes at all.
pivot_cut(right_val, n) ==
    IF n > Len(right_val) THEN <<>>
    ELSE write_varint_unsigned(n) \o SubSeq(right_val, 1, n)

\* The closure mapped over chunk.windows(2), for the window (chunk[i],
\* chunk[i+1]).
pivot_bytes(chunk, i) ==
    pivot_cut(chunk[i + 1].min,
              common_prefix_len(chunk[i].max, chunk[i + 1].min) + 1)

\* The index of the first window whose pivot panics, one past the last
\* window when none does.
first_panic(enc) ==
    LET bad == {i \in 1..Len(enc) : enc[i] = <<>>}
    IN IF bad = {} THEN Len(enc) + 1
       ELSE CHOOSE i \in bad : \A j \in bad : i <= j

\* The pivots enc written in turn and their offsets collected, up to the
\* first that panics.
collect_pivots(file, enc) ==
    [file |-> file \o Concat(enc, 1, first_panic(enc) - 1),
     pointers |-> [i \in 1..(first_panic(enc) - 1) |->
                      Len(file) + Len(Concat(enc, 1, i - 1))],
     panic |-> first_panic(enc) <= Len(enc)]

\* The pivots of one chunk.
write_pivots(chunk, file) ==
    collect_pivots(file, [i \in 1..(Len(chunk) - 1) |-> pivot_bytes(chunk, i)])

\* The pointers written big-endian one after the other.
FlattenI32(ps) == Concat([k \in 1..Len(ps) |-> I32ToBe(ps[k])], 1, Len(ps))

\* write_page with the page pointer taken after the child count was written.
write_page_pointer_after_count(chunk, piv, child_pages) ==
    IF piv.panic THEN [file |-> piv.file, pages |-> child_pages, panic |-> TRUE]
    ELSE [file |-> piv.file \o <<Len(chunk)>>
                     \o FlattenI32(piv.pointers)
                     \o FlattenI32([k \in 1..Len(chunk) |-> chunk[k].pointer]),
          pages |-> Append(child_pages,
                           [min |-> chunk[1].min, max |-> chunk[1].max,
                            pointer |-> Len(piv.file) + 1]),
          panic |-> FALSE]

\* The rest of the loop body once the pivots piv of the chunk are written:
\* the page (child count, pivot pointers, child pointers) and the descriptor
\* of the page, whose min and max are taken from the chunk's first child.
write_page(chunk, piv, child_pages) ==
    IF piv.panic THEN [file |-> piv.file, pages |-> child_pages, panic |-> TRUE]
    ELSE [file |-> piv.file \o <<Len(chunk)>>
                     \o FlattenI32(piv.pointers)
                     \o FlattenI32([k \in 1..Len(chunk) |-> chunk[k].pointer]),
          pages |-> Append(child_pages,
                           [min |-> chunk[1].min, max |-> chunk[1].max,
                            pointer |-> Len(piv.file)]),
          panic |-> FALSE]

\* The body of the loop over children.chunks_mut(SEARCH_TREE_SIZE) for one
\* chunk.  A chunk of one child is pushed to child_pages and taken (left as
\* the default page); the loop body then goes on with it.
write_chunk(chunk, file, child_pages) ==
    IF Len(chunk) = 1
    THEN write_page(<<DefaultPage>>, write_pivots(<<DefaultPage>>, file),
                    Append(child_pages, chunk[1]))
    ELSE write_page(chunk, write_pivots(chunk, file), child_pages)

\* The loop over the chunks, from the chunk starting at index i, with the
\* file and child_pages so far.
RECURSIVE write_chunks(_, _, _)
write_chunks(children, i, sofar) ==
    IF sofar.panic \/ i > Len(children) THEN sofar
    ELSE write_chunks(children, i + SEARCH_TREE_SIZE,
             write_chunk(SubSeq(children, i,
                                Min(i + SEARCH_TREE_SIZE - 1, Len(children))),
                         sofar.file, sofar.pages))

RECURSIVE write_search_tree(_, _)

\* The recursion of write_search_tree on the pages of the level written.
write_parents(next) ==
    IF next.panic THEN [file |-> next.file, root |-> 0, panic |-> TRUE]
    ELSE write_search_tree(next.pages, next.file)

write_search_tree(children, file) ==
    IF Len(children) = 1
    THEN [file |-> file, root |-> children[1].pointer, panic |-> FALSE]
    ELSE IF Len(children) = 0
    THEN [file |-> file, root |-> 0, panic |-> TRUE]
    ELSE write_parents(write_chunks(children, 1,
                           [file |-> file, pages |-> <<>>, panic |-> FALSE]))

write_footer(file, tree_pointer) == file \o I32ToBe(tree_pointer) \o <<0, 1>>

\* The footer after the search tree, unless building the tree panicked.
finish_tree(built) ==
    IF built.panic THEN [file |-> built.file, panic |-> TRUE]
    ELSE [file |-> write_footer(built.file, built.root), panic |-> FALSE]

\* The data pages at finish: the page being filled is added when it holds a
\* record.
finish_pages(w) ==
    IF w.page_offset # 0 THEN Append(w.data_pages, w.current_page) ELSE w.data_pages

\* finish with the root pointer of a file without records taken after the
\* terminator was written instead of before.
SstWriter_finish_pointer_after_terminator(w) ==
    IF finish_pages(w) = <<>>
    THEN [file |-> write_footer(w.file \o <<0, 0>>, 0 - Len(w.file \o <<0, 0>>)),
          panic |-> FALSE]
    ELSE finish_tree(write_search_tree(finish_pages(w), w.file \o <<0, 0>>))

\* finish: the file it leaves behind and whether it panicked on the way.
SstWriter_finish(w) ==
    IF finish_pages(w) = <<>>
    THEN [file |-> write_footer(w.file \o <<0, 0>>, 0 - SstWriter_size(w)),
          panic |-> FALSE]
    ELSE finish_tree(write_search_tree(finish_pages(w), w.file \o <<0, 0>>))

----------------------------------------------------------------------------
(* SstReader *)

SstReader_new == [next_position |-> None, key_value |-> None, panic |-> FALSE]

\* The varint pair at the head of the record at offset off: whether the reads
\* stay inside the data, the two lengths and the offset of the key bytes.
read_lengths(data, off) ==
    LET w1 == VarintWidth(data, off)
    IN IF w1 = 0 \/ off + w1 > Len(data)
       THEN [ok |-> FALSE, key_len |-> 0, val_len |-> 0, start |-> off]
       ELSE LET k == read_varint_unsigned(data, off)
                w2 == VarintWidth(data, k.rest)
            IN IF w2 = 0 \/ k.rest + w2 > Len(data)
               THEN [ok |-> FALSE, key_len |-> 0, val_len |-> 0, start |-> off]
               ELSE LET v == read_varint_unsigned(data, k.rest)
                    IN [ok |-> TRUE, key_len |-> k.val, val_len |-> v.val,
                        start |-> v.rest]

RECURSIVE walk_data(_, _, _, _)

\* One turn of the loop of walk_from over the data section, for the record
\* whose lengths h were read: the terminator ends the scan with no record, a
\* key >= key is the match, any other record is stepped over.
walk_record(data, self, key, h) ==
    CASE ~h.ok -> [self EXCEPT !.panic = TRUE]
      [] h.ok /\ h.key_len = 0 /\ h.val_len = 0 ->
            [self EXCEPT !.key_value = None, !.next_position = None]
      [] h.ok /\ (h.key_len # 0 \/ h.val_len # 0)
              /\ h.start + h.key_len + h.val_len > Len(data) ->
            [self EXCEPT !.panic = TRUE]
      [] OTHER ->
            IF BytesLess(Slice(data, h.start, h.start + h.key_len), key)
            THEN walk_data(data, self, h.start + h.key_len + h.val_len, key)
            ELSE [self EXCEPT
                    !.key_value =
                        Some([key |-> Slice(data, h.start, h.start + h.key_len),
                              value |-> Slice(data, h.start + h.key_len,
                                              h.start + h.key_len + h.val_len)]),
                    !.next_position = Some(h.start + h.key_len + h.val_len)]

\* walk_from on a negative pointer: the linear scan of the data section from
\* the record at offset off.  self is the reader the walk updates.
walk_data(data, self, off, key) == walk_record(data, self, key, read_lengths(data, off))

\* The closure handed to binary_search: pivot.cmp(key) for the pivot pivot_idx
\* of the page whose pivot pointers start at pivot_ptr_base.
pivot_cmp(data, pivot_ptr_base, pivot_idx, key) ==
    LET pivot_ptr_ptr == (pivot_idx * 4) + pivot_ptr_base
        pivot_pointer == U32FromBe(data, pivot_ptr_ptr)
        p == read_varint_unsigned(data, pivot_pointer)
        pivot == Slice(data, p.rest, p.rest + p.val)
    IN IF pivot = key THEN "Equal"
       ELSE IF BytesLess(pivot, key) THEN "Less" ELSE "Greater"

\* The loop of binary_search with an equal pivot sending the search left.
RECURSIVE binary_search_loop_equal_left(_, _, _)
binary_search_loop_equal_left(left, right, f) ==
    IF right = left THEN left
    ELSE LET mid == (left + right) \div 2
         IN IF f[mid] # "Less"
            THEN binary_search_loop_equal_left(left, mid, f)
            ELSE binary_search_loop_equal_left(mid + 1, right, f)

RECURSIVE binary_search_loop(_, _, _)
binary_search_loop(left, right, f) ==
    IF right = left THEN left
    ELSE LET mid == (left + right) \div 2
         IN IF f[mid] = "Greater"
            THEN binary_search_loop(left, mid, f)
            ELSE binary_search_loop(mid + 1, right, f)

\* size is the number of children, f the comparison of pivot i with the key.
binary_search(size, f) == binary_search_loop(0, size - 1, f)

\* The indices binary_search hands to f, in the order of the calls.
RECURSIVE binary_search_calls(_, _, _)
binary_search_calls(left, right, f) ==
    IF right = left THEN <<>>
    ELSE LET mid == (left + right) \div 2
         IN IF f[mid] = "Greater"
            THEN <<mid>> \o binary_search_calls(left, mid, f)
            ELSE <<mid>> \o binary_search_calls(mid + 1, right, f)

RECURSIVE walk_from(_, _, _, _)
walk_from(data, self, from, key) ==
    IF from < 0
    THEN IF (0 - from) > Len(data) THEN [self EXCEPT !.panic = TRUE]
         ELSE walk_data(data, self, 0 - from, key)
    ELSE IF from >= Len(data) \/ data[from + 1] = 0
    THEN [self EXCEPT !.panic = TRUE]
    ELSE LET child_count == data[from + 1]
             pivot_ptr_base == from + 1
             child_ptr_base == ((child_count - 1) * 4) + pivot_ptr_base
             f == [pivot_idx \in 0..255 |->
                      pivot_cmp(data, pivot_ptr_base, pivot_idx, key)]
             child_idx == binary_search(child_count, f)
             child_ptr_ptr == (child_idx * 4) + child_ptr_base
         IN IF child_ptr_ptr + 4 > Len(data) THEN [self EXCEPT !.panic = TRUE]
            ELSE walk_from(data, self, I32FromBe(data, child_ptr_ptr), key)

\* seek that walks on from the cursor when there is one instead of from the
\* root.
SstReader_seek_from_cursor(data, self, key) ==
    IF Len(data) < 6 THEN [self EXCEPT !.panic = TRUE]
    ELSE IF self.next_position # None
    THEN walk_from(data, self, 0 - self.next_position[1], key)
    ELSE walk_from(data, self, I32FromBe(data, Len(data) - 6), key)

SstReader_seek(data, self, key) ==
    IF Len(data) < 6 THEN [self EXCEPT !.panic = TRUE]
    ELSE walk_from(data, self, I32FromBe(data, Len(data) - 6), key)

SstReader_advance(data, self) ==
    IF self.next_position = None THEN [self EXCEPT !.key_value = None]
    ELSE LET h == read_lengths(data, self.next_position[1])
             end == h.start + h.key_len + h.val_len
         IN IF ~h.ok THEN [self EXCEPT !.panic = TRUE]
            ELSE IF h.key_len = 0 /\ h.val_len = 0
            THEN [self EXCEPT !.key_value = None, !.next_position = None]
            ELSE IF end > Len(data) THEN [self EXCEPT !.panic = TRUE]
            ELSE [self EXCEPT
                    !.key_value = Some([key |-> Slice(data, h.start, h.start + h.key_len),
                                        value |-> Slice(data, h.start + h.key_len, end)]),
                    !.next_position = Some(end)]

SstReader_get(self) == self.key_value

----------------------------------------------------------------------------
(* The caller of the SST writer and reader *)

\* Bytes of the freely chosen keys ("a", "b") and the value bytes ("1").
KeyBytes == {97, 98}
ValueByte == 49

RECURSIVE SeqsUpTo(_, _)
SeqsUpTo(S, n) ==
    IF n = 0 THEN {<<>>}
    ELSE LET shorter == SeqsUpTo(S, n - 1)
         IN shorter \cup {Append(q, x) : q \in {r \in shorter : Len(r) = n - 1}, x \in S}

FreeKeys == SeqsUpTo(KeyBytes, MaxKeyLen)
FreeValues == {<<>>, <<ValueByte>>}

\* Record counts around the leaf size L and the page fan-out F: L, L+1, L*F,
\* L*F+1 and a count whose 66 leaves need a second tree level.
BigCounts ==
    { LOWER_LEAF_SIZE, LOWER_LEAF_SIZE + 1,
      LOWER_LEAF_SIZE * SEARCH_TREE_SIZE,
      (LOWER_LEAF_SIZE * SEARCH_TREE_SIZE) + 1,
      (LOWER_LEAF_SIZE * (SEARCH_TREE_SIZE + 1)) + 1 }

\* The i-th key (from 0) of a generated input.  "be" counts in big-endian
\* bytes as the reader's tests do; "pfx" gives the first leaf its own first
\* byte and every later key a common one.
BigKey(kind, i) ==
    IF kind = "be" THEN <<i \div 256, i % 256>>
    ELSE IF i < LOWER_LEAF_SIZE THEN <<0, i>>
    ELSE <<1, (i - LOWER_LEAF_SIZE) \div 256, (i - LOWER_LEAF_SIZE) % 256>>

Plans ==
    {[kind |-> "free", n |-> MaxFree], [kind |-> "any", n |-> MaxFree]}
      \cup {[kind |-> "be", n |-> c] : c \in BigCounts}
      \cup {[kind |-> "pfx", n |-> (LOWER_LEAF_SIZE * (SEARCH_TREE_SIZE + 1)) + 1]}

\* The records the caller may push next: any record with a greater key when
\* it chooses freely ("free"), a one-byte key in any order when it does not
\* keep the order ("any"), the next generated record otherwise.
Offered ==
    IF Len(pushed) >= plan.n THEN {}
    ELSE IF plan.kind = "free"
    THEN {<<k, v>> \in FreeKeys \X FreeValues :
             pushed = <<>> \/ BytesLess(pushed[Len(pushed)].key, k)}
    ELSE IF plan.kind = "any"
    THEN {<<<<b>>, <<ValueByte>>>> : b \in KeyBytes}
    ELSE {<<BigKey(plan.kind, Len(pushed)), <<ValueByte>>>>}

\* The keys the caller seeks.
ProbeIdx ==
    {0, LOWER_LEAF_SIZE - 1, LOWER_LEAF_SIZE, LOWER_LEAF_SIZE + 5,
     (LOWER_LEAF_SIZE * SEARCH_TREE_SIZE) - 1, LOWER_LEAF_SIZE * SEARCH_TREE_SIZE,
     plan.n - 1} \cap (0..(plan.n - 1))

SeekKeys ==
    IF plan.kind \in {"free", "any"} THEN FreeKeys
    ELSE {<<>>, <<255>>}
           \cup {BigKey(plan.kind, i) : i \in ProbeIdx}
           \cup {Append(BigKey(plan.kind, i), 0) : i \in ProbeIdx}

\* Advances the caller makes after a seek to a key other than the empty one.
MaxAdvance == 1

\* The state of the part of the system a run does not use.
NoLsm ==
    /\ tree = <<>>
    /\ store = <<>>
    /\ iter = [levels |-> <<>>, heap |-> {}]
    /\ lsmOp = [op |-> "none", key |-> <<>>, err |-> FALSE]
    /\ emitted = <<>>

NoSst ==
    /\ plan = [kind |-> "none", n |-> 0]
    /\ writer = SstWriter_new
    /\ wstate = "open"
    /\ pushed = <<>>
    /\ reader = SstReader_new
    /\ lastOp = [op |-> "none", key |-> <<>>, n |-> 0, moved |-> FALSE]

\* The identifiers the callers of the file stores use.
StoreIds == {"foobar"}

\* Most bytes a caller writes into one blob.
MaxBlobLen == 2
\* Most open_for_write calls of a run.
MaxWrites == 2
\* Most open_for_read calls of a run.
MaxOpens == 2

\* The slots of the Arc values and of the inodes that can be live at once.
ArcSlots == 1..(MaxOpens + 2)
InodeSlots == 1..(MaxOpens + 3)

\* A slot that holds no Arc.
NoArc == [id |-> "", bytes |-> <<>>, inode |-> 0, len |-> 0, delete |-> FALSE,
          readers |-> 0, got |-> <<>>, live |-> FALSE]

\* No open_for_read has returned yet.
NoRead == [id |-> "", ok |-> FALSE, bytes |-> <<>>, arc |-> 0, fresh |-> FALSE,
           raced |-> FALSE]

\* The history of a file store run that has not started: per identifier the
\* blob that is published, what the callers did to the identifier last
\* ("none", "writing", "published", "abandoned" by a writer that was dropped,
\* "deleted" after it was published, "removed" by a delete of no published
\* blob) and how many pending open_for_read calls began before that; the
\* calls so far, whether an identifier was opened for write while its blob
\* was published, whether open_for_read or delete ran while a writer was in
\* flight, whether a writer panicked, and the last open_for_read.
NoLog ==
    [published |-> [i \in StoreIds |-> None], status |-> [i \in StoreIds |-> "none"],
     stale |-> [i \in StoreIds |-> 0], opened |-> 0, issued |-> 0,
     reused |-> FALSE, overlap |-> FALSE, panicked |-> FALSE, read |-> NoRead]

\* The file stores are not part of a run of the SST or of the iterators.
NoFs ==
    /\ fsKind = "none"
    /\ disk = [i \in StoreIds |-> 0]
    /\ files = [n \in InodeSlots |-> <<>>]
    /\ open_files = [i \in StoreIds |-> None]
    /\ arcs = [h \in ArcSlots |-> NoArc]
    /\ fwriter = None
    /\ pending = [i \in StoreIds |-> 0]
    /\ fsLog = NoLog

\* A buffered writer that was not made, and no call of a function.
NoBufw == [bytes_buffer |-> <<>>, pointers |-> <<>>, merged |-> <<>>, info |-> None]

NoCalc ==
    [op |-> "none", args |-> <<>>, out |-> <<>>, val |-> <<>>, rem |-> <<>>,
     keep |-> FALSE, panic |-> FALSE]

NoAux ==
    /\ bufw = NoBufw
    /\ calc = NoCalc

InitSst ==
    /\ plan \in Plans
    /\ writer = SstWriter_new
    /\ wstate = "open"
    /\ pushed = <<>>
    /\ reader = SstReader_new
    /\ lastOp = [op |-> "none", key |-> <<>>, n |-> 0, moved |-> FALSE]
    /\ NoLsm
    /\ NoFs
    /\ NoAux

PushRecord ==
    /\ wstate = "open"
    /\ \E kv \in Offered :
          /\ writer' = SstWriter_push_record(writer, kv[1], kv[2])
          /\ pushed' = Append(pushed, [key |-> kv[1], value |-> kv[2]])
    /\ UNCHANGED <<plan, wstate, reader, lastOp>>
    /\ UNCHANGED lsmVars
    /\ UNCHANGED fsVars
    /\ UNCHANGED auxVars

\* The state after finish returned or panicked with done.
FinishReturn(done) ==
    /\ writer' = [writer EXCEPT !.file = done.file]
    /\ wstate' = IF done.panic THEN "panicked" ELSE "finished"

Finish ==
    /\ wstate = "open"
    /\ plan.kind = "free" \/ Len(pushed) = plan.n
    /\ FinishReturn(SstWriter_finish(writer))
    /\ UNCHANGED <<plan, pushed, reader, lastOp>>
    /\ UNCHANGED lsmVars
    /\ UNCHANGED fsVars
    /\ UNCHANGED auxVars

Seek ==
    /\ wstate = "finished"
    /\ ~reader.panic
    /\ \E key \in SeekKeys :
          /\ reader' = SstReader_seek(writer.file, reader, key)
          /\ lastOp' = [op |-> "seek", key |-> key, n |-> 0,
                        moved |-> reader.key_value # None
                                    /\ reader.key_value # reader'.key_value]
    /\ UNCHANGED <<plan, writer, wstate, pushed>>
    /\ UNCHANGED lsmVars
    /\ UNCHANGED fsVars
    /\ UNCHANGED auxVars

Advance ==
    /\ wstate = "finished"
    /\ ~reader.panic
    /\ IF lastOp.op # "none" /\ lastOp.key = <<>>
       THEN lastOp.n <= Len(pushed)
       ELSE lastOp.n < MaxAdvance
    /\ reader' = SstReader_advance(writer.file, reader)
    /\ lastOp' = [lastOp EXCEPT !.op = "advance", !.n = @ + 1, !.moved = FALSE]
    /\ UNCHANGED <<plan, writer, wstate, pushed>>
    /\ UNCHANGED lsmVars
    /\ UNCHANGED fsVars
    /\ UNCHANGED auxVars

NextSst == PushRecord \/ Finish \/ Seek \/ Advance

SpecSst == InitSst /\ [][NextSst]_vars

----------------------------------------------------------------------------
(* MemoryFileStore, as far as the iterators use it *)

\* open_for_read: the bytes published under the identifier, or an error.
FileStore_open_for_read(file_store, identifier) ==
    IF identifier \in DOMAIN file_store
    THEN [ok |-> TRUE, raw |-> file_store[identifier]]
    ELSE [ok |-> FALSE, raw |-> <<>>]

----------------------------------------------------------------------------
(* LsmLevelIter: current_sst is None or Some of the reader of the open SST,  *)
(* the bytes the reader owns and the index of the SST in the level.          *)

LsmLevelIter_new == [current_sst |-> None]

\* The comparison seek hands to binary_search_by.
sst_cmp(sst, key) ==
    IF BytesLess(sst.max_record, key) THEN "Less"
    ELSE IF BytesLess(key, sst.min_record) THEN "Greater"
    ELSE "Equal"

\* slice::binary_search_by on a level whose ranges ascend: Ok(i) for an SST
\* that compares Equal, else Err(i) with i the number of SSTs that compare
\* Less; seek unwraps both to the index (from 0).
sst_binary_search(ssts, key) ==
    LET eq == {i \in 1..Len(ssts) : sst_cmp(ssts[i], key) = "Equal"}
        less == {i \in 1..Len(ssts) : sst_cmp(ssts[i], key) = "Less"}
    IN IF eq # {} THEN (CHOOSE i \in eq : \A j \in eq : i <= j) - 1
       ELSE Cardinality(less)

\* open_sst with a failure of open_for_read taken for the end of the level.
open_sst_swallowed(ssts, file_store, self, sst_offset, key) ==
    LET opened == FileStore_open_for_read(file_store, ssts[sst_offset + 1].identifier)
    IN IF ~opened.ok THEN [self |-> [current_sst |-> None], err |-> FALSE]
       ELSE [self |-> [current_sst |->
                          Some([reader |-> SstReader_seek(opened.raw, SstReader_new, key),
                                data |-> opened.raw,
                                idx |-> sst_offset])],
             err |-> FALSE]

\* Opens the SST at index sst_offset (from 0) and seeks its reader to key.
open_sst(ssts, file_store, self, sst_offset, key) ==
    LET opened == FileStore_open_for_read(file_store, ssts[sst_offset + 1].identifier)
    IN IF ~opened.ok THEN [self |-> self, err |-> TRUE]
       ELSE [self |-> [current_sst |->
                          Some([reader |-> SstReader_seek(opened.raw, SstReader_new, key),
                                data |-> opened.raw,
                                idx |-> sst_offset])],
             err |-> FALSE]

LsmLevelIter_seek(ssts, file_store, self, key) ==
    LET sst_offet == sst_binary_search(ssts, key)
    IN IF sst_offet < Len(ssts)
       THEN open_sst(ssts, file_store, self, sst_offet, key)
       ELSE [self |-> [current_sst |-> None], err |-> FALSE]

LsmLevelIter_advance(ssts, file_store, self) ==
    IF self.current_sst = None THEN [self |-> self, err |-> FALSE]
    ELSE LET cur == self.current_sst[1]
             advanced == SstReader_advance(cur.data, cur.reader)
             self1 == [current_sst |-> Some([cur EXCEPT !.reader = advanced])]
             next == cur.idx + 1
         IN IF SstReader_get(advanced) = None /\ next < Len(ssts)
            THEN open_sst(ssts, file_store, self1, next, <<>>)
            ELSE [self |-> self1, err |-> FALSE]

LsmLevelIter_get(self) ==
    IF self.current_sst = None THEN None
    ELSE SstReader_get(self.current_sst[1].reader)

----------------------------------------------------------------------------
(* LsmIter: the level iterators and the heap of Next {level, key} entries.   *)

\* impl Ord for Next: self.cmp(other), with the comparisons swapped.
\* Ord for Next with the keys compared the natural way round, which makes
\* the heap a max-heap on the key.
Next_cmp_key_forward(self, other) ==
    IF BytesLess(self.key, other.key) THEN "Less"
    ELSE IF BytesLess(other.key, self.key) THEN "Greater"
    ELSE IF other.level < self.level THEN "Less"
    ELSE IF other.level > self.level THEN "Greater"
    ELSE "Equal"

\* Ord for Next with the levels compared the natural way round, which puts
\* the greater level first among equal keys.
Next_cmp_level_forward(self, other) ==
    IF BytesLess(other.key, self.key) THEN "Less"
    ELSE IF BytesLess(self.key, other.key) THEN "Greater"
    ELSE IF self.level < other.level THEN "Less"
    ELSE IF self.level > other.level THEN "Greater"
    ELSE "Equal"

Next_cmp(self, other) ==
    IF BytesLess(other.key, self.key) THEN "Less"
    ELSE IF BytesLess(self.key, other.key) THEN "Greater"
    ELSE IF other.level < self.level THEN "Less"
    ELSE IF other.level > self.level THEN "Greater"
    ELSE "Equal"

\* BinaryHeap::peek: the greatest entry.
heap_peek(heap) ==
    IF heap = {} THEN None
    ELSE Some(CHOOSE top \in heap : \A other \in heap : Next_cmp(top, other) # "Less")

LsmIter_new(levels) ==
    [levels |-> [i \in 1..Len(levels) |-> LsmLevelIter_new], heap |-> {}]

\* A Next entry holds its key by reference (the transmuted &'static [u8]):
\* live tells whether the view the key was read from is still held by the
\* level's reader.  view_dropped is the heap after the level replaced its
\* reader, which drops the view the level's entries point into.
view_dropped(heap, level) ==
    {IF e.level = level THEN [e EXCEPT !.live = FALSE] ELSE e : e \in heap}

\* The body of seek's loop for the level idx (from 0), after the level's
\* seek returned r: an error is passed up, a level with a current record is
\* pushed on the heap.  A seek that returns Ok has replaced current_sst.
seek_level(self, idx, r) ==
    IF r.err THEN [self |-> [self EXCEPT !.levels[idx + 1] = r.self], err |-> TRUE]
    ELSE IF LsmLevelIter_get(r.self) = None
    THEN [self |-> [self EXCEPT !.levels[idx + 1] = r.self,
                                !.heap = view_dropped(@, idx)],
          err |-> FALSE]
    ELSE [self |-> [self EXCEPT
                      !.levels[idx + 1] = r.self,
                      !.heap = view_dropped(@, idx)
                                  \cup {[level |-> idx,
                                         key |-> LsmLevelIter_get(r.self)[1].key,
                                         live |-> TRUE]}],
          err |-> FALSE]

\* The loop of seek over the levels, from the level idx (from 0), with the
\* outcome so far.
RECURSIVE seek_levels(_, _, _, _, _)
seek_levels(levels, file_store, sofar, idx, key) ==
    IF sofar.err \/ idx >= Len(sofar.self.levels) THEN sofar
    ELSE seek_levels(levels, file_store,
             seek_level(sofar.self, idx,
                 LsmLevelIter_seek(levels[idx + 1], file_store,
                                   sofar.self.levels[idx + 1], key)),
             idx + 1, key)

LsmIter_seek(levels, file_store, self, key) ==
    seek_levels(levels, file_store,
                [self |-> [self EXCEPT !.heap = {}], err |-> FALSE], 0, key)

\* Whether the level's advance, which returned the iterator after from
\* before, opened the next SST and so replaced the reader.
reader_replaced(before, after) ==
    /\ before.current_sst # None
    /\ after.current_sst # None
    /\ before.current_sst[1].idx # after.current_sst[1].idx

\* The heap after the level of a popped entry returned from advance
rest_of_heap(self, top, r) ==
    IF reader_replaced(self.levels[top.level + 1], r.self)
    THEN view_dropped(self.heap \ {top}, top.level)
    ELSE self.heap \ {top}

\* advance after the top entry was popped and its level's advance returned r.
advance_level(self, top, r) ==
    IF r.err \/ LsmLevelIter_get(r.self) = None
    THEN [self |-> [levels |-> [self.levels EXCEPT ![top.level + 1] = r.self],
                    heap |-> rest_of_heap(self, top, r)],
          err |-> r.err]
    ELSE [self |-> [levels |-> [self.levels EXCEPT ![top.level + 1] = r.self],
                    heap |-> rest_of_heap(self, top, r)
                               \cup {[level |-> top.level,
                                      key |-> LsmLevelIter_get(r.self)[1].key,
                                      live |-> TRUE]}],
          err |-> FALSE]

advance_top(levels, file_store, self, top) ==
    advance_level(self, top,
        LsmLevelIter_advance(levels[top.level + 1], file_store,
                             self.levels[top.level + 1]))

LsmIter_advance(levels, file_store, self) ==
    IF self.heap = {} THEN [self |-> self, err |-> FALSE]
    ELSE advance_top(levels, file_store, self, heap_peek(self.heap)[1])

LsmIter_get(self) ==
    LET peeked == heap_peek(self.heap)
    IN IF peeked = None THEN None
       ELSE LsmLevelIter_get(self.levels[peeked[1].level + 1])

----------------------------------------------------------------------------
(* The snapshots the iterators run over *)

\* Most SSTs in the level of a level iterator's run, and in each level of
\* a tree iterator's run.
MaxSsts == 3
MaxTreeSsts == 2
\* The level indexes of a table snapshot.
LevelIds == {0, 1}

\* Keys of the records in the snapshot ("a", "b", "c").
LsmKeys == {<<97>>, <<98>>, <<99>>}

RECURSIVE SortedKeys(_)
SortedKeys(S) ==
    IF S = {} THEN <<>>
    ELSE LET least == CHOOSE k \in S : \A other \in S : BytesLeq(k, other)
         IN <<least>> \o SortedKeys(S \ {least})

RECURSIVE push_all(_, _)
push_all(w, records) ==
    IF records = <<>> THEN w
    ELSE push_all(SstWriter_push_record(w, Head(records).key, Head(records).value),
                  Tail(records))

\* The file a writer leaves for the records, pushed in order and finished.
SstFile(records) == SstWriter_finish(push_all(SstWriter_new, records)).file

\* The SstInfo of a finished writer: min and max record over the pushed
\* records.  For a writer that pushed none the descriptor is whatever the
\* snapshot gives it (desc).
SstInfo(records, desc) ==
    IF records = <<>> THEN [min_record |-> desc, max_record |-> desc]
    ELSE [min_record |-> records[1].key, max_record |-> records[Len(records)].key]

\* The SSTs a level of the given index may hold: one for every non-empty set
\* of keys, its values tagged "1", "2" by level as in the tests, and a
\* zero-record SST for every descriptor key.
SstChoices(lvl) ==
    LET with == {[i \in 1..Len(ks) |-> [key |-> ks[i], value |-> <<ValueByte + lvl>>]] :
                   ks \in {SortedKeys(S) : S \in (SUBSET LsmKeys) \ {{}}}}
    IN {[records |-> r, info |-> SstInfo(r, <<>>)] : r \in with}
         \cup {[records |-> <<>>, info |-> SstInfo(<<>>, d)] : d \in LsmKeys}

\* LsmLevelSnapshot: at most n SSTs whose ranges are disjoint and ascend
\* strictly.
LevelChoices(lvl, n) ==
    UNION {{q \in [1..m -> SstChoices(lvl)] :
               \A i \in 1..(m - 1) :
                   BytesLess(q[i].info.max_record, q[i + 1].info.min_record)} :
           m \in 0..n}

\* NamedSst: identifier, descriptor and (history) the records in the file.
NamedLevel(lvl, q) ==
    [i \in 1..Len(q) |->
        [identifier |-> <<lvl, i>>,
         min_record |-> q[i].info.min_record,
         max_record |-> q[i].info.max_record,
         records |-> q[i].records]]

\* The file store after every SST of the snapshot was written and closed.
StoreOf(levels) ==
    [id \in UNION {{levels[l][i].identifier : i \in 1..Len(levels[l])} :
                     l \in 1..Len(levels)} |->
        SstFile(levels[id[1] + 1][id[2]].records)]

\* The keys the caller seeks.
LsmSeekKeys == LsmKeys \cup {<<>>}

RECURSIVE concat_records(_, _)
concat_records(ssts, i) ==
    IF i > Len(ssts) THEN <<>>
    ELSE ssts[i].records \o concat_records(ssts, i + 1)

\* The records of a level in the order of its SSTs.
LevelRecords(ssts) == concat_records(ssts, 1)

\* All records of the snapshot, each with the index of its level.
AllRecords ==
    UNION {{[key |-> LevelRecords(tree[l])[r].key,
             value |-> LevelRecords(tree[l])[r].value,
             level |-> l - 1] : r \in 1..Len(LevelRecords(tree[l]))} :
           l \in 1..Len(tree)}

RECURSIVE count_ssts(_, _)
count_ssts(levels, l) ==
    IF l > Len(levels) THEN 0 ELSE Len(levels[l]) + count_ssts(levels, l + 1)

\* Calls after which a scan has run off the end of every level.
ScanBound == Cardinality(AllRecords) + count_ssts(tree, 1) + 1

\* What get() returned, with the level it came from.
Entry(got, lvl) ==
    IF got = None THEN None
    ELSE Some([key |-> got[1].key, value |-> got[1].value, level |-> lvl])

----------------------------------------------------------------------------
(* A level iterator over one level *)

InitLevel ==
    /\ NoSst
    /\ NoFs
    /\ NoAux
    /\ \E q \in LevelChoices(0, MaxSsts) : tree = <<NamedLevel(0, q)>>
    /\ store = StoreOf(tree)
    /\ iter = LsmIter_new(tree)
    /\ lsmOp = [op |-> "none", key |-> <<>>, err |-> FALSE]
    /\ emitted = <<>>

\* The state after a call of the level iterator that returned r, get() of
\* the iterator added to the records emitted before.
LevelReturn(op, key, r, before) ==
    /\ iter' = [iter EXCEPT !.levels[1] = r.self]
    /\ lsmOp' = [op |-> op, key |-> key, err |-> r.err]
    /\ emitted' = IF r.err THEN before
                  ELSE Append(before, Entry(LsmLevelIter_get(r.self), 0))

LevelSeek ==
    /\ \E key \in LsmSeekKeys :
          LevelReturn("seek", key,
                      LsmLevelIter_seek(tree[1], store, iter.levels[1], key), <<>>)
    /\ UNCHANGED <<tree, store>>
    /\ UNCHANGED sstVars
    /\ UNCHANGED fsVars
    /\ UNCHANGED auxVars

LevelAdvance ==
    /\ lsmOp.op # "none"
    /\ Len(emitted) <= ScanBound
    /\ LevelReturn("advance", lsmOp.key,
                   LsmLevelIter_advance(tree[1], store, iter.levels[1]), emitted)
    /\ UNCHANGED <<tree, store>>
    /\ UNCHANGED sstVars
    /\ UNCHANGED fsVars
    /\ UNCHANGED auxVars

NextLevel == LevelSeek \/ LevelAdvance

SpecLevel == InitLevel /\ [][NextLevel]_vars

----------------------------------------------------------------------------
(* A tree iterator over a table snapshot *)

InitLsm ==
    /\ NoSst
    /\ NoFs
    /\ NoAux
    /\ \E q0 \in LevelChoices(0, MaxTreeSsts) : \E q1 \in LevelChoices(1, MaxTreeSsts) :
          tree = <<NamedLevel(0, q0), NamedLevel(1, q1)>>
    /\ store = StoreOf(tree)
    /\ iter = LsmIter_new(tree)
    /\ lsmOp = [op |-> "none", key |-> <<>>, err |-> FALSE]
    /\ emitted = <<>>

\* get() of the tree iterator, with the level at the top of the heap.
LsmEntry(self) ==
    IF self.heap = {} THEN None
    ELSE Entry(LsmIter_get(self), heap_peek(self.heap)[1].level)

\* The state after a call of the tree iterator that returned r, get() of the
\* iterator added to the records emitted before.
LsmReturn(op, key, r, before) ==
    /\ iter' = r.self
    /\ lsmOp' = [op |-> op, key |-> key, err |-> r.err]
    /\ emitted' = IF r.err THEN before ELSE Append(before, LsmEntry(r.self))

LsmSeek ==
    /\ \E key \in LsmSeekKeys :
          LsmReturn("seek", key, LsmIter_seek(tree, store, iter, key), <<>>)
    /\ UNCHANGED <<tree, store>>
    /\ UNCHANGED sstVars
    /\ UNCHANGED fsVars
    /\ UNCHANGED auxVars

LsmAdvance ==
    /\ lsmOp.op # "none"
    /\ Len(emitted) <= ScanBound
    /\ LsmReturn("advance", lsmOp.key, LsmIter_advance(tree, store, iter), emitted)
    /\ UNCHANGED <<tree, store>>
    /\ UNCHANGED sstVars
    /\ UNCHANGED fsVars
    /\ UNCHANGED auxVars

NextLsm == LsmSeek \/ LsmAdvance

SpecLsm == InitLsm /\ [][NextLsm]_vars

----------------------------------------------------------------------------
(* The file stores.  A run uses one store, MemoryFileStore or               *)
(* LocalFileStore, and the callers' operations interleave freely.  An Arc   *)
(* is a slot of arcs; the file system is the directory (disk) and the       *)
(* inodes (files), so that a file that is unlinked while it is mapped keeps *)
(* its bytes.  A slot is reused once its Arc or inode is gone.              *)

\* The byte the n-th writer of a run writes: a store never looks at the
\* bytes, and the blobs of different writers differ.
StoreByte(n) == 103 + n

\* What a read through a mapping of a file that was truncated to nothing
\* does: the process gets SIGBUS.
SIGBUS == <<-1>>

\* std::fs::File write at the cursor position pos.
file_write(content, pos, buf) ==
    SubSeq(content, 1, pos) \o buf \o SubSeq(content, pos + Len(buf) + 1, Len(content))

\* The bytes of a shared mapping of len bytes over a file whose content may
\* have changed since: a page that is partly past the end of the file reads
\* as zeros there, a page wholly past the end faults.
mmap_read(content, len) ==
    IF Len(content) >= len THEN SubSeq(content, 1, len)
    ELSE IF content = <<>> THEN SIGBUS
    ELSE content \o [i \in 1..(len - Len(content)) |-> 0]

\* Deref of a reader: the bytes of the Arc<[u8]> or of the mapping.
Deref(a, fls, h) ==
    IF a[h].inode = 0 THEN a[h].bytes ELSE mmap_read(fls[a[h].inode], a[h].len)

\* The number of owners of the Arc h: the pool or map entry and the readers.
strong_count(a, h, of) ==
    a[h].readers + (IF \E i \in StoreIds : of[i] = Some(h) THEN 1 ELSE 0)

\* Drop of the value behind an Arc, once nothing owns it: the bytes of the
\* memory store are freed, the mapping of the local store is unmapped
\* (arc_drop) and, when it is flagged, the file at its path is removed
\* (MmapInner_drop).
arc_drop(a, h, of) ==
    IF strong_count(a, h, of) = 0 THEN [a EXCEPT ![h] = NoArc] ELSE a

MmapInner_drop(d, a, h, of) ==
    IF strong_count(a, h, of) = 0 /\ a[h].delete THEN [d EXCEPT ![a[h].id] = 0] ELSE d

\* Arc::new: the lowest slot that holds no Arc.
new_arc(a) ==
    CHOOSE h \in ArcSlots : ~a[h].live /\ \A g \in ArcSlots : g < h => a[g].live

\* An inode lives while a directory entry, a mapping or an open file refers
\* to it; a new file takes the lowest inode that is not in use.
inode_used(n, d, a, w) ==
    \/ \E i \in StoreIds : d[i] = n
    \/ \E h \in ArcSlots : a[h].live /\ a[h].inode = n
    \/ w # None /\ w[1].file = n

new_inode ==
    CHOOSE n \in InodeSlots :
        /\ ~inode_used(n, disk, arcs, fwriter)
        /\ \A m \in InodeSlots : m < n => inode_used(m, disk, arcs, fwriter)

reclaim(fls, d, a, w) ==
    [n \in InodeSlots |-> IF inode_used(n, d, a, w) THEN fls[n] ELSE <<>>]

\* Arc::clone into a reader that is handed to the caller.
Arc_clone(a, h) == [a EXCEPT ![h].readers = @ + 1]

ReadOk(id, a, fls, h, fresh, raced) ==
    [id |-> id, ok |-> TRUE, bytes |-> Deref(a, fls, h), arc |-> h, fresh |-> fresh,
     raced |-> raced]

ReadErr(id, fresh) ==
    [id |-> id, ok |-> FALSE, bytes |-> <<>>, arc |-> 0, fresh |-> fresh,
     raced |-> FALSE]

InitFs ==
    /\ NoSst
    /\ NoLsm
    /\ NoAux
    /\ fsKind \in {"memory", "local"}
    /\ disk = [i \in StoreIds |-> 0]
    /\ files = [n \in InodeSlots |-> <<>>]
    /\ open_files = [i \in StoreIds |-> None]
    /\ arcs = [h \in ArcSlots |-> NoArc]
    /\ fwriter = None
    /\ pending = [i \in StoreIds |-> 0]
    /\ fsLog = NoLog

\* open_for_write: the memory store starts an empty buffer; the local store
\* creates the file, or truncates the file that is there.
OpenForWrite ==
    \E id \in StoreIds :
        /\ fwriter = None
        /\ fsLog.opened < MaxWrites
        /\ LET inode == IF fsKind = "memory" THEN 0
                        ELSE IF disk[id] = 0 THEN new_inode ELSE disk[id]
           IN  /\ fwriter' = Some([identifier |-> id, buffer |-> <<>>, file |-> inode,
                                   flushed |-> FALSE])
               /\ files' = IF fsKind = "memory" THEN files
                           ELSE [files EXCEPT ![inode] = <<>>]
               /\ disk' = IF fsKind = "memory" THEN disk ELSE [disk EXCEPT ![id] = inode]
        /\ fsLog' = [fsLog EXCEPT !.stale[id] = pending[id], !.opened = @ + 1,
                                  !.status[id] = "writing",
                                  !.reused = @ \/ fsLog.published[id] # None]
        /\ UNCHANGED <<fsKind, open_files, arcs, pending>>
        /\ UNCHANGED <<sstVars, lsmVars, auxVars>>

\* Write::write_all on the writer: into the buffer, or straight to the file
\* at the cursor of the handle (buffer is then the bytes written so far).
WriteAll ==
    /\ fwriter # None
    /\ Len(fwriter[1].buffer) < MaxBlobLen
    /\ fwriter' = Some([fwriter[1] EXCEPT !.buffer = Append(@, StoreByte(fsLog.opened))])
    /\ files' = IF fsKind = "memory" THEN files
                ELSE [files EXCEPT ![fwriter[1].file] =
                          file_write(@, Len(fwriter[1].buffer),
                                     <<StoreByte(fsLog.opened)>>)]
    /\ UNCHANGED <<fsKind, disk, open_files, arcs, pending, fsLog>>
    /\ UNCHANGED <<sstVars, lsmVars, auxVars>>

\* flush_and_close, and the drop of the flushed writer at its end: the memory
\* store inserts the buffer into the map, the local store closes the file.
FlushAndClose ==
    /\ fwriter # None
    /\ LET w == fwriter[1]
           h == new_arc(arcs)
           old == open_files[w.identifier]
           of == [open_files EXCEPT ![w.identifier] = Some(h)]
           a == [arcs EXCEPT ![h] = [id |-> w.identifier, bytes |-> w.buffer,
                                     inode |-> 0, len |-> Len(w.buffer),
                                     delete |-> FALSE, readers |-> 0,
                                     got |-> w.buffer, live |-> TRUE]]
       IN  /\ open_files' = IF fsKind = "memory" THEN of ELSE open_files
           /\ arcs' = IF fsKind = "local" THEN arcs
                      ELSE IF old = None THEN a
                      ELSE arc_drop(a, old[1], of)
           /\ files' = reclaim(files, disk, arcs, None)
           /\ fsLog' = [fsLog EXCEPT !.published[w.identifier] = Some(w.buffer),
                                     !.status[w.identifier] = "published",
                                     !.stale[w.identifier] = pending[w.identifier]]
    /\ fwriter' = None
    /\ UNCHANGED <<fsKind, disk, pending>>
    /\ UNCHANGED <<sstVars, lsmVars, auxVars>>

\* Drop of a writer that was not flushed: both stores panic; the memory store
\* inserts nothing, the local store closes the file it created.
DropWriter ==
    /\ fwriter # None
    /\ fwriter' = None
    /\ files' = reclaim(files, disk, arcs, None)
    /\ fsLog' = [fsLog EXCEPT !.panicked = TRUE,
                              !.status[fwriter[1].identifier] = "abandoned"]
    /\ UNCHANGED <<fsKind, disk, open_files, arcs, pending>>
    /\ UNCHANGED <<sstVars, lsmVars, auxVars>>

\* open_for_read of the memory store, and the read-lock phase of
\* open_for_read of the local store: a reader of the pooled Arc, or, for the
\* local store, on to the write-lock phase.
OpenForRead ==
    \E id \in StoreIds :
        /\ fsLog.issued < MaxOpens
        /\ IF open_files[id] # None
           THEN /\ arcs' = Arc_clone(arcs, open_files[id][1])
                /\ fsLog' = [fsLog EXCEPT !.issued = @ + 1,
                                 !.overlap = @ \/ fwriter # None,
                                 !.read = ReadOk(id, arcs, files, open_files[id][1], TRUE, FALSE)]
                /\ UNCHANGED pending
           ELSE IF fsKind = "memory"
           THEN /\ fsLog' = [fsLog EXCEPT !.issued = @ + 1,
                                 !.overlap = @ \/ fwriter # None,
                                 !.read = ReadErr(id, TRUE)]
                /\ UNCHANGED <<arcs, pending>>
           ELSE /\ pending' = [pending EXCEPT ![id] = @ + 1]
                /\ fsLog' = [fsLog EXCEPT !.issued = @ + 1,
                                 !.overlap = @ \/ fwriter # None]
                /\ UNCHANGED arcs
        /\ UNCHANGED <<fsKind, disk, files, open_files, fwriter>>
        /\ UNCHANGED <<sstVars, lsmVars, auxVars>>

\* The write-lock phase of open_for_read without the second look into the
\* pool: every call that missed under the read lock maps the file and
\* installs its own mapping.
open_for_read_unchecked(id, fresh) ==
    LET h == new_arc(arcs)
        a == [arcs EXCEPT ![h] = [id |-> id, bytes |-> <<>>, inode |-> disk[id],
                                  len |-> Len(files[disk[id]]), delete |-> FALSE,
                                  readers |-> 1, got |-> files[disk[id]],
                                  live |-> TRUE]]
    IN  IF disk[id] = 0 \/ files[disk[id]] = <<>>
        THEN /\ fsLog' = [fsLog EXCEPT
                              !.stale[id] = IF fresh THEN @ ELSE @ - 1,
                              !.overlap = @ \/ fwriter # None,
                              !.read = ReadErr(id, fresh)]
             /\ UNCHANGED <<open_files, arcs>>
        ELSE /\ arcs' = IF open_files[id] = None THEN a
                        ELSE arc_drop(a, open_files[id][1],
                                      [open_files EXCEPT ![id] = Some(h)])
             /\ open_files' = [open_files EXCEPT ![id] = Some(h)]
             /\ fsLog' = [fsLog EXCEPT
                              !.stale[id] = IF fresh THEN @ ELSE @ - 1,
                              !.overlap = @ \/ fwriter # None,
                              !.read = ReadOk(id, a, files, h, fresh, FALSE)]

\* The write-lock phase of open_for_read of the local store: the pooled Arc
\* if another call installed one, else the file is opened and mapped and the
\* mapping installed.  Mapping a file of no bytes is an error.
open_for_read_locked(id, fresh) ==
    LET h == new_arc(arcs)
        a == [arcs EXCEPT ![h] = [id |-> id, bytes |-> <<>>, inode |-> disk[id],
                                  len |-> Len(files[disk[id]]), delete |-> FALSE,
                                  readers |-> 1, got |-> files[disk[id]],
                                  live |-> TRUE]]
    IN  IF open_files[id] # None
        THEN /\ arcs' = Arc_clone(arcs, open_files[id][1])
             /\ fsLog' = [fsLog EXCEPT
                              !.stale[id] = IF fresh THEN @ ELSE @ - 1,
                              !.overlap = @ \/ fwriter # None,
                              !.read = ReadOk(id, arcs, files, open_files[id][1], fresh,
                                              TRUE)]
             /\ UNCHANGED open_files
        ELSE IF disk[id] = 0 \/ files[disk[id]] = <<>>
        THEN /\ fsLog' = [fsLog EXCEPT
                              !.stale[id] = IF fresh THEN @ ELSE @ - 1,
                              !.overlap = @ \/ fwriter # None,
                              !.read = ReadErr(id, fresh)]
             /\ UNCHANGED <<open_files, arcs>>
        ELSE /\ arcs' = a
             /\ open_files' = [open_files EXCEPT ![id] = Some(h)]
             /\ fsLog' = [fsLog EXCEPT
                              !.stale[id] = IF fresh THEN @ ELSE @ - 1,
                              !.overlap = @ \/ fwriter # None,
                              !.read = ReadOk(id, a, files, h, fresh, FALSE)]

OpenForReadLocked ==
    \E id \in StoreIds : \E fresh \in BOOLEAN :
        /\ pending[id] > 0
        /\ IF fresh THEN pending[id] > fsLog.stale[id] ELSE fsLog.stale[id] > 0
        /\ pending' = [pending EXCEPT ![id] = @ - 1]
        /\ open_for_read_locked(id, fresh)
        /\ UNCHANGED <<fsKind, disk, files, fwriter>>
        /\ UNCHANGED <<sstVars, lsmVars, auxVars>>

\* delete: the entry is removed; the local store flags the mapping, and the
\* Arc taken out of the pool is dropped at the end of the call.
delete(id) ==
    /\ LET old == open_files[id]
           of == [open_files EXCEPT ![id] = None]
           a == IF old = None \/ fsKind = "memory" THEN arcs
                ELSE [arcs EXCEPT ![old[1]].delete = TRUE]
           d == IF old = None THEN disk ELSE MmapInner_drop(disk, a, old[1], of)
           dropped == IF old = None THEN arcs ELSE arc_drop(a, old[1], of)
       IN  /\ open_files' = of
           /\ arcs' = dropped
           /\ disk' = d
           /\ files' = reclaim(files, d, dropped, fwriter)
    /\ fsLog' = [fsLog EXCEPT
                     !.published[id] = None,
                     !.overlap = @ \/ fwriter # None,
                     !.status[id] = IF @ = "writing" THEN @
                                    ELSE IF @ = "published" THEN "deleted"
                                    ELSE IF @ = "deleted" THEN @ ELSE "removed",
                     !.stale[id] = pending[id]]
    /\ UNCHANGED <<fsKind, fwriter, pending>>
    /\ UNCHANGED <<sstVars, lsmVars, auxVars>>

\* A caller deletes an identifier
Delete == \E id \in StoreIds : delete(id)

\* A caller drops a reader; the last owner of the Arc drops the value.
DropView ==
    \E h \in ArcSlots :
        /\ arcs[h].readers > 0
        /\ LET a == [arcs EXCEPT ![h].readers = @ - 1]
               d == MmapInner_drop(disk, a, h, open_files)
               dropped == arc_drop(a, h, open_files)
           IN  /\ arcs' = dropped
               /\ disk' = d
               /\ files' = reclaim(files, d, dropped, fwriter)
        /\ UNCHANGED <<fsKind, open_files, fwriter, pending, fsLog>>
        /\ UNCHANGED <<sstVars, lsmVars, auxVars>>

NextFs ==
    \/ OpenForWrite
    \/ WriteAll
    \/ FlushAndClose
    \/ DropWriter
    \/ OpenForRead
    \/ OpenForReadLocked
    \/ Delete
    \/ DropView

SpecFs == InitFs /\ [][NextFs]_vars

----------------------------------------------------------------------------
(* varint.rs on integers of full width.  A u32 is its four big-endian     *)
(* bytes and an i64 its eight big-endian bytes in two's complement, so    *)
(* that every value of the type can be an argument.                        *)

\* The bytes of an integer as a tuple
Bytes(f) == SubSeq(f, 1, Len(f))

\* !x on an unsigned integer
BitNot(x) == Bytes([i \in 1..Len(x) |-> 255 - x[i]])

\* The carry out of the bytes i.. of a + b
RECURSIVE add_carry(_, _, _)
add_carry(a, b, i) ==
    IF i > Len(a) THEN 0 ELSE (a[i] + b[i] + add_carry(a, b, i + 1)) \div 256

\* a + b modulo 2^64
wrapping_add(a, b) ==
    Bytes([i \in 1..Len(a) |-> (a[i] + b[i] + add_carry(a, b, i + 1)) % 256])

\* n as i64, for -2^31 <= n < 2^31
I64Of(n) == (IF n < 0 THEN <<255, 255, 255, 255>> ELSE <<0, 0, 0, 0>>) \o I32ToBe(n)

\* -x on an i64
I64Neg(x) == wrapping_add(BitNot(x), I64Of(1))

\* a < b and a <= b on i64: the order of the bytes with the sign bit flipped
I64Less(a, b) ==
    BytesLess(<<(a[1] + 128) % 256>> \o Tail(a), <<(b[1] + 128) % 256>> \o Tail(b))

I64Leq(a, b) == a = b \/ I64Less(a, b)

\* a + b overflows i64
add_overflows(a, b) ==
    /\ (a[1] >= 128) = (b[1] >= 128)
    /\ (wrapping_add(a, b)[1] >= 128) # (a[1] >= 128)

\* x as u8, as u16, as u32: the low n bytes; x as i64 of an unsigned x
LowBytes(x, n) == SubSeq(x, Len(x) - n + 1, Len(x))

ZeroExtend(x) == [i \in 1..(8 - Len(x)) |-> 0] \o x

U32_MAX == <<0, 0, 0, 0, 255, 255, 255, 255>>
I64_MAX == <<127, 255, 255, 255, 255, 255, 255, 255>>
I64_MIN == <<128, 0, 0, 0, 0, 0, 0, 0>>

VARINT_SIGNED_ZERO_ENC == 103

\* write_varint_unsigned on the four bytes of i
write_varint_unsigned_u32(i) ==
    IF BytesLess(i, <<0, 0, 0, 253>>) THEN <<i[4]>>
    ELSE IF BytesLeq(i, <<0, 0, 255, 255>>) THEN <<253>> \o LowBytes(i, 2)
    ELSE <<254>> \o i

\* read_varint_unsigned: the u32 and the rest of the buffer; a buffer that
\* is too short panics.
read_varint_unsigned_u32(buffer) ==
    IF buffer = <<>> THEN [panic |-> TRUE, val |-> <<>>, rem |-> <<>>]
    ELSE LET rem == Tail(buffer)
         IN CASE buffer[1] = 253 ->
                   IF Len(rem) < 2 THEN [panic |-> TRUE, val |-> <<>>, rem |-> <<>>]
                   ELSE [panic |-> FALSE, val |-> <<0, 0>> \o SubSeq(rem, 1, 2),
                         rem |-> SubSeq(rem, 3, Len(rem))]
              [] buffer[1] = 254 ->
                   IF Len(rem) < 4 THEN [panic |-> TRUE, val |-> <<>>, rem |-> <<>>]
                   ELSE [panic |-> FALSE, val |-> SubSeq(rem, 1, 4),
                         rem |-> SubSeq(rem, 5, Len(rem))]
              [] OTHER -> [panic |-> FALSE, val |-> <<0, 0, 0, buffer[1]>>, rem |-> rem]

\* The negative payload written without the complement
negative_payload_plain(i, n) == LowBytes(I64Neg(i), n)

\* The payload of a negative i in n bytes: !(-i as u8), !(-i as u16),
\* !(-i as u32).
negative_payload(i, n) == BitNot(LowBytes(I64Neg(i), n))

write_varint_signed(i) ==
    IF I64Leq(I64Of(0), i)
    THEN IF I64Leq(i, I64Of(148)) THEN <<i[8] + VARINT_SIGNED_ZERO_ENC>>
         ELSE IF I64Leq(i, I64Of(255)) THEN <<252, i[8]>>
         ELSE IF I64Leq(i, I64Of(65535)) THEN <<253>> \o LowBytes(i, 2)
         ELSE IF I64Leq(i, U32_MAX) THEN <<254>> \o LowBytes(i, 4)
         ELSE <<255>> \o i
    ELSE IF I64Leq(I64Of(-99), i)
         THEN LowBytes(wrapping_add(i, I64Of(VARINT_SIGNED_ZERO_ENC)), 1)
         ELSE IF I64Leq(I64Neg(I64Of(255)), i) THEN <<3>> \o negative_payload(i, 1)
         ELSE IF I64Leq(I64Neg(I64Of(65535)), i) THEN <<2>> \o negative_payload(i, 2)
         ELSE IF I64Leq(I64Neg(U32_MAX), i) THEN <<1>> \o negative_payload(i, 4)
         ELSE <<0>> \o i

\* The signed payload read without the complement
signed_payload_plain(tag, bytes) == ZeroExtend(bytes)

\* The i64 read from a payload of n bytes after the tag: -(!(payload) as
\* i64) for the tags 1, 2, 3, payload as i64 for 252, 253, 254.
signed_payload(tag, bytes) ==
    IF tag <= 3 THEN I64Neg(ZeroExtend(BitNot(bytes))) ELSE ZeroExtend(bytes)

\* Bytes of payload after each tag; 0 for the bytes that are the value.
payload_len(tag) ==
    CASE tag = 0 \/ tag = 255 -> 8
      [] tag = 1 \/ tag = 254 -> 4
      [] tag = 2 \/ tag = 253 -> 2
      [] tag = 3 \/ tag = 252 -> 1
      [] OTHER -> 0

\* read_varint_signed: the i64 and the rest of the buffer; a buffer that is
\* too short panics.
read_varint_signed(buffer) ==
    IF buffer = <<>> \/ Len(buffer) - 1 < payload_len(buffer[1])
    THEN [panic |-> TRUE, val |-> <<>>, rem |-> <<>>]
    ELSE LET rem == Tail(buffer)
             n == payload_len(buffer[1])
         IN [panic |-> FALSE,
             val |-> IF n = 0 THEN I64Of(buffer[1] - VARINT_SIGNED_ZERO_ENC)
                     ELSE IF n = 8 THEN SubSeq(rem, 1, 8)
                     ELSE signed_payload(buffer[1], SubSeq(rem, 1, n)),
             rem |-> SubSeq(rem, n + 1, Len(rem))]

\* CounterRecord::merge over the values of one key.  freq += tmp panics
\* on overflow in a build with overflow checks and wraps in one without.
RECURSIVE merge_loop(_, _, _, _)
merge_loop(values, n, freq, overflow_checks) ==
    IF n > Len(values) THEN [panic |-> FALSE, freq |-> freq]
    ELSE LET tmp == read_varint_signed(values[n])
         IN IF tmp.panic \/ (overflow_checks /\ add_overflows(freq, tmp.val))
            THEN [panic |-> TRUE, freq |-> freq]
            ELSE merge_loop(values, n + 1, wrapping_add(freq, tmp.val), overflow_checks)

CounterRecord_merge(values, overflow_checks) ==
    LET sum == merge_loop(values, 1, I64Of(0), overflow_checks)
    IN IF sum.panic THEN [panic |-> TRUE, keep |-> FALSE, merged |-> <<>>]
       ELSE IF sum.freq = I64Of(0) THEN [panic |-> FALSE, keep |-> FALSE, merged |-> <<>>]
       ELSE [panic |-> FALSE, keep |-> TRUE, merged |-> write_varint_signed(sum.freq)]

----------------------------------------------------------------------------
(* The callers of varint.rs and of CounterRecord::merge: the values of    *)
(* the tests of varint.rs and their neighbours, and streams of deltas.     *)

MaxDeltas == 3

U32Inputs ==
    {<<0, 0, 0, 0>>, <<0, 0, 0, 1>>, <<0, 0, 0, 252>>, <<0, 0, 0, 253>>,
     <<0, 0, 0, 254>>, <<0, 0, 0, 255>>, <<0, 0, 1, 0>>, <<0, 0, 255, 255>>,
     <<0, 1, 0, 0>>, <<0, 1, 0, 1>>, <<0, 255, 255, 255>>, <<1, 0, 0, 0>>,
     <<127, 255, 255, 255>>, <<128, 0, 0, 0>>, <<255, 255, 255, 254>>,
     <<255, 255, 255, 255>>}

SmallInputs ==
    {0, 1, 2, 147, 148, 149, 150, 254, 255, 256, 257, 65534, 65535, 65536, 65537,
     -1, -2, -98, -99, -100, -101, -254, -255, -256, -257, -65534, -65535,
     -65536, -65537}

I64Inputs ==
    {I64Of(n) : n \in SmallInputs}
        \cup {U32_MAX, wrapping_add(U32_MAX, I64Of(1)), wrapping_add(U32_MAX, I64Of(-1)),
              I64Neg(U32_MAX), wrapping_add(I64Neg(U32_MAX), I64Of(1)),
              wrapping_add(I64Neg(U32_MAX), I64Of(-1)),
              I64_MAX, wrapping_add(I64_MAX, I64Of(-1)),
              I64_MIN, wrapping_add(I64_MIN, I64Of(1))}

Deltas == {I64Of(0), I64Of(1), I64Of(-1), I64Of(-2), I64Of(149), I64_MAX, I64_MIN}

\* The longest run of pivots equal to the search key
MaxEqual == 2

\* A search page as binary_search sees it: size children, of whose size - 1
\* ascending pivots the first `less` are below the key and the next `equal`
\* are the key.
SearchInputs ==
    {in \in (1..SEARCH_TREE_SIZE) \X (0..(SEARCH_TREE_SIZE - 1)) \X (0..MaxEqual) :
        in[2] + in[3] <= in[1] - 1}

\* The pivots of such a page when the key searched for is key
SearchPivots(size, less, equal, key) ==
    [i \in 0..(size - 2) |-> IF i < less THEN key - 1
                             ELSE IF i < less + equal THEN key
                             ELSE key + 1]

\* a.cmp(b)
cmp(a, b) == IF a = b THEN "Equal" ELSE IF a < b THEN "Less" ELSE "Greater"

CalcInputs ==
    {<<"unsigned", <<v>>>> : v \in U32Inputs}
        \cup {<<"signed", <<v>>>> : v \in I64Inputs}
        \cup {<<"unsigned", <<a, b>>>> : a \in U32Inputs, b \in U32Inputs}
        \cup {<<"signed", <<a, b>>>> : a \in I64Inputs, b \in I64Inputs}
        \cup {<<"deltas", s>> : s \in SeqsUpTo(Deltas, MaxDeltas)}
        \cup {<<"search", in>> : in \in SearchInputs}

InitCalc ==
    /\ NoSst
    /\ NoLsm
    /\ NoFs
    /\ bufw = NoBufw
    /\ calc \in {[NoCalc EXCEPT !.op = in[1], !.args = in[2]] : in \in CalcInputs}

\* write_varint_unsigned into an empty buffer, and read_varint_unsigned of
\* that buffer
RoundTripUnsigned ==
    /\ calc.op = "unsigned"
    /\ Len(calc.args) = 1
    /\ LET buffer == write_varint_unsigned_u32(calc.args[1])
           got == read_varint_unsigned_u32(buffer)
       IN calc' = [calc EXCEPT !.op = "read_unsigned", !.out = <<buffer>>,
                               !.val = got.val, !.rem = got.rem, !.panic = got.panic]
    /\ UNCHANGED <<sstVars, lsmVars, fsVars, bufw>>

RoundTripSigned ==
    /\ calc.op = "signed"
    /\ Len(calc.args) = 1
    /\ LET buffer == write_varint_signed(calc.args[1])
           got == read_varint_signed(buffer)
       IN calc' = [calc EXCEPT !.op = "read_signed", !.out = <<buffer>>,
                               !.val = got.val, !.rem = got.rem, !.panic = got.panic]
    /\ UNCHANGED <<sstVars, lsmVars, fsVars, bufw>>

\* Two values written each into a buffer of its own
WriteUnsignedPair ==
    /\ calc.op = "unsigned"
    /\ Len(calc.args) = 2
    /\ calc' = [calc EXCEPT !.op = "wrote_unsigned",
                            !.out = <<write_varint_unsigned_u32(calc.args[1]),
                                      write_varint_unsigned_u32(calc.args[2])>>]
    /\ UNCHANGED <<sstVars, lsmVars, fsVars, bufw>>

WriteSignedPair ==
    /\ calc.op = "signed"
    /\ Len(calc.args) = 2
    /\ calc' = [calc EXCEPT !.op = "wrote_signed",
                            !.out = <<write_varint_signed(calc.args[1]),
                                      write_varint_signed(calc.args[2])>>]
    /\ UNCHANGED <<sstVars, lsmVars, fsVars, bufw>>

\* CounterRecord::merge over the written deltas, by either build
Merge ==
    /\ calc.op = "deltas"
    /\ \E overflow_checks \in BOOLEAN :
          LET values == [n \in 1..Len(calc.args) |-> write_varint_signed(calc.args[n])]
              got == CounterRecord_merge(values, overflow_checks)
          IN calc' = [calc EXCEPT !.op = "merged",
                                  !.out = IF got.keep THEN <<got.merged>> ELSE <<>>,
                                  !.keep = got.keep, !.panic = got.panic]
    /\ UNCHANGED <<sstVars, lsmVars, fsVars, bufw>>

\* binary_search over a page's pivots with the closure pivot.cmp(key); an
\* index that is no pivot's compares as the byte after the page would.
Search ==
    /\ calc.op = "search"
    /\ \E key \in {1} :
          LET size == calc.args[1]
              pivots == SearchPivots(size, calc.args[2], calc.args[3], key)
              f == [pivot_idx \in 0..255 |->
                       IF pivot_idx \in DOMAIN pivots
                       THEN cmp(pivots[pivot_idx], key) ELSE "Greater"]
          IN calc' = [calc EXCEPT !.op = "searched",
                                  !.val = <<binary_search(size, f)>>,
                                  !.out = binary_search_calls(0, size - 1, f)]
    /\ UNCHANGED <<sstVars, lsmVars, fsVars, bufw>>

NextCalc ==
    \/ Search
    \/ RoundTripUnsigned
    \/ RoundTripSigned
    \/ WriteUnsignedPair
    \/ WriteSignedPair
    \/ Merge

SpecCalc == InitCalc /\ [][NextCalc]_vars

----------------------------------------------------------------------------
(* sst_buffered_writer.rs: records pushed in any order, sorted by finish   *)
(* and written through the merger into the SST writer.                     *)

SstBufferedWriter_push_record(self, key, value) ==
    LET start_offset == Len(self.bytes_buffer)
        key_end_offset == start_offset + Len(key)
        value_end_offset == key_end_offset + Len(value)
    IN [self EXCEPT !.bytes_buffer = @ \o key \o value,
                    !.pointers = Append(@, <<start_offset, key_end_offset,
                                             value_end_offset>>)]

\* The key and the value a pointer stands for
pointer_key(buffer, p) == Slice(buffer, p[1], p[2])
pointer_value(buffer, p) == Slice(buffer, p[2], p[3])

\* The pointers before number n sorted by key, pointers of equal keys in
\* the order they were pushed: what the stable sort_by leaves.
sort_insert(buffer, sorted, p) ==
    LET before == Cardinality({i \in 1..Len(sorted) :
                     BytesLeq(pointer_key(buffer, sorted[i]), pointer_key(buffer, p))})
    IN SubSeq(sorted, 1, before) \o <<p>> \o SubSeq(sorted, before + 1, Len(sorted))

RECURSIVE sort_by(_, _, _)
sort_by(buffer, pointers, n) ==
    IF n = 0 THEN <<>>
    ELSE sort_insert(buffer, sort_by(buffer, pointers, n - 1), pointers[n])

kv_iter(buffer, pointers) ==
    [i \in 1..Len(pointers) |-> [key |-> pointer_key(buffer, pointers[i]),
                                 value |-> pointer_value(buffer, pointers[i])]]

NoopMerger_merge(records) == records

\* The inner writer after the records number n.. of the merged stream
RECURSIVE push_merged(_, _, _)
push_merged(inner, merged, n) ==
    IF n > Len(merged) THEN inner
    ELSE push_merged(SstWriter_push_record(inner, merged[n].key, merged[n].value),
                     merged, n + 1)

finish_inner(sorted, merged, inner) ==
    [pointers |-> sorted, merged |-> merged, inner |-> inner,
     done |-> SstWriter_finish(inner), info |-> SstInfo(merged, <<>>)]

finish_merged(sorted, merged, inner) ==
    finish_inner(sorted, merged, push_merged(inner, merged, 1))

finish_sorted(buffer, sorted, inner) ==
    finish_merged(sorted, NoopMerger_merge(kv_iter(buffer, sorted)), inner)

SstBufferedWriter_finish(self, inner) ==
    finish_sorted(self.bytes_buffer,
                  sort_by(self.bytes_buffer, self.pointers, Len(self.pointers)), inner)

----------------------------------------------------------------------------
(* The caller of the buffered writer: pushes in any order, keys repeated   *)
(* or not, then finish and a scan of the file.                             *)

MaxBufPushes == 3

BufKeys == {<<>>, <<97>>, <<98>>, <<97, 98>>}

\* The values of the pushes: none, or "1", "2", .. by the number of the push.
BufValues == {<<>>, <<ValueByte + Len(bufw.pointers)>>}

InitBuf ==
    /\ plan = [kind |-> "buf", n |-> MaxBufPushes]
    /\ writer = SstWriter_new
    /\ wstate = "open"
    /\ pushed = <<>>
    /\ reader = SstReader_new
    /\ lastOp = [op |-> "none", key |-> <<>>, n |-> 0, moved |-> FALSE]
    /\ NoLsm
    /\ NoFs
    /\ NoAux

BufPushRecord ==
    /\ wstate = "open"
    /\ Len(bufw.pointers) < plan.n
    /\ \E key \in BufKeys, value \in BufValues :
          bufw' = SstBufferedWriter_push_record(bufw, key, value)
    /\ UNCHANGED <<sstVars, lsmVars, fsVars, calc>>

\* finish: the file, the records the inner writer was given, and the
\* SstInfo that is returned.
BufFinishReturn(fin) ==
    /\ bufw' = [bufw EXCEPT !.pointers = fin.pointers, !.merged = fin.merged,
                            !.info = IF fin.done.panic THEN None ELSE Some(fin.info)]
    /\ writer' = [fin.inner EXCEPT !.file = fin.done.file]
    /\ wstate' = IF fin.done.panic THEN "panicked" ELSE "finished"
    /\ pushed' = fin.merged

BufFinish ==
    /\ plan.kind = "buf"
    /\ wstate = "open"
    /\ BufFinishReturn(SstBufferedWriter_finish(bufw, writer))
    /\ UNCHANGED <<plan, reader, lastOp, lsmVars, fsVars, calc>>

\* reader.seek(b"") on the finished file
BufSeek ==
    /\ wstate = "finished"
    /\ lastOp.op = "none"
    /\ reader' = SstReader_seek(writer.file, reader, <<>>)
    /\ lastOp' = [op |-> "seek", key |-> <<>>, n |-> 0, moved |-> FALSE]
    /\ UNCHANGED <<plan, writer, wstate, pushed, lsmVars, fsVars, auxVars>>

\* reader.advance() after the seek, until get() was None once
BufAdvance ==
    /\ wstate = "finished"
    /\ lastOp.op # "none"
    /\ ~reader.panic
    /\ lastOp.n <= Len(pushed)
    /\ reader' = SstReader_advance(writer.file, reader)
    /\ lastOp' = [lastOp EXCEPT !.op = "advance", !.n = @ + 1]
    /\ UNCHANGED <<plan, writer, wstate, pushed, lsmVars, fsVars, auxVars>>

NextBuf == BufPushRecord \/ BufFinish \/ BufSeek \/ BufAdvance

SpecBuf == InitBuf /\ [][NextBuf]_vars

----------------------------------------------------------------------------
(* The iterators over a snapshot whose SSTs may be deleted from the file   *)
(* store while the snapshot is in use.                                     *)

\* The levels whose SSTs all hold records.
FullLevels(lvl, n) ==
    {q \in LevelChoices(lvl, n) : \A i \in 1..Len(q) : q[i].records # <<>>}

InitGone ==
    /\ NoSst
    /\ NoFs
    /\ NoAux
    /\ \/ \E q \in FullLevels(0, MaxSsts) : tree = <<NamedLevel(0, q)>>
       \/ \E q0 \in FullLevels(0, MaxTreeSsts) : \E q1 \in FullLevels(1, MaxTreeSsts) :
             tree = <<NamedLevel(0, q0), NamedLevel(1, q1)>>
    /\ store = StoreOf(tree)
    /\ iter = LsmIter_new(tree)
    /\ lsmOp = [op |-> "none", key |-> <<>>, err |-> FALSE]
    /\ emitted = <<>>

\* file_store.delete of an SST of the snapshot, once in a run
DeleteSst ==
    /\ DOMAIN store = DOMAIN StoreOf(tree)
    /\ \E gone \in DOMAIN store :
          store' = [id \in (DOMAIN store) \ {gone} |-> store[id]]
    /\ UNCHANGED <<tree, iter, lsmOp, emitted>>
    /\ UNCHANGED <<sstVars, fsVars, auxVars>>

\* The calls of the level iterator of a level, and of the tree iterator of
\* a table
GoneLevelSeek == Len(tree) = 1 /\ LevelSeek
GoneLevelAdvance == Len(tree) = 1 /\ LevelAdvance
GoneLsmSeek == Len(tree) = 2 /\ LsmSeek
GoneLsmAdvance == Len(tree) = 2 /\ LsmAdvance

NextGone ==
    \/ DeleteSst
    \/ GoneLevelSeek
    \/ GoneLevelAdvance
    \/ GoneLsmSeek
    \/ GoneLsmAdvance

SpecGone == InitGone /\ [][NextGone]_vars

----------------------------------------------------------------------------
(* Properties of the SST writer and reader (SpecSst) *)

Ascending(records) ==
    \A i \in 1..(Len(records) - 1) : BytesLess(records[i].key, records[i + 1].key)

\* The first of the records whose key is >= key, None when there is none.
FirstAtLeast(records, key) ==
    LET at == {i \in 1..Len(records) : ~BytesLess(records[i].key, key)}
    IN IF at = {} THEN None
       ELSE Some(records[CHOOSE i \in at : \A j \in at : i <= j])

\* A record whose key and value are both empty is written as the two bytes of
\* the terminator.
HasEmptyRecord(records) ==
    \E i \in 1..Len(records) : records[i].key = <<>> /\ records[i].value = <<>>

\* C4: after finish, seek(k) then get() returns the pushed record with the
\* smallest key >= k, or None when k is greater than every pushed key; stated
\* for the pushes that hold no record the terminator could be mistaken for.
C4_SeekFindsSmallestAtLeast ==
    (wstate = "finished" /\ lastOp.op = "seek" /\ Ascending(pushed)
       /\ ~HasEmptyRecord(pushed))
        => /\ ~reader.panic
           /\ SstReader_get(reader) = FirstAtLeast(pushed, lastOp.key)

\* C5: after seek(empty key), the j-th advance leaves get() at the pushed
\* record number j + 1, and at None once the pushed records are used up.
C5_ScanYieldsPushed ==
    (wstate = "finished" /\ lastOp.op # "none" /\ lastOp.key = <<>> /\ Ascending(pushed))
        => /\ ~reader.panic
           /\ SstReader_get(reader) =
                 IF lastOp.n + 1 <= Len(pushed) THEN Some(pushed[lastOp.n + 1]) ELSE None

\* C6: finish never panics, whatever the number of pushed records, and the
\* file it leaves ends with the footer (root pointer and version 1).
C6_FinishCompletes ==
    /\ wstate # "panicked"
    /\ wstate = "finished"
          => /\ Len(writer.file) >= Len(HEADER) + 2 + 6
             /\ SubSeq(writer.file, Len(writer.file) - 1, Len(writer.file)) = <<0, 1>>

\* C7: get() after seek(k) does not depend on where the cursor was before: it
\* is what seek(k) gives on a reader that was never moved.
C7_SeekIgnoresPosition ==
    (wstate = "finished" /\ lastOp.op = "seek")
        => /\ reader.panic = SstReader_seek(writer.file, SstReader_new, lastOp.key).panic
           /\ SstReader_get(reader)
                 = SstReader_get(SstReader_seek(writer.file, SstReader_new, lastOp.key))

\* A seek that moved a positioned cursor backwards to another record.
C7_Witness ==
    /\ wstate = "finished"
    /\ lastOp.op = "seek"
    /\ lastOp.moved
    /\ SstReader_get(reader) # None
    /\ Len(pushed) >= 2
    /\ SstReader_get(reader)[1] = pushed[1]

\* C8: new then finish with no push leaves header, terminator and a footer
\* whose root pointer is -26, and every seek on that file leaves get() None.
C8_EmptyFile ==
    (wstate = "finished" /\ pushed = <<>>)
        => /\ Len(HEADER) = 26
           /\ writer.file = HEADER \o <<0, 0>> \o <<255, 255, 255, 230>> \o <<0, 1>>
           /\ I32FromBe(writer.file, Len(writer.file) - 6) = 0 - 26
           /\ lastOp.op = "seek" => (~reader.panic /\ SstReader_get(reader) = None)

\* The empty file was sought with the empty key.
C8_Witness ==
    /\ wstate = "finished"
    /\ pushed = <<>>
    /\ lastOp.op = "seek"
    /\ lastOp.key = <<>>
    /\ SstReader_get(reader) = None

----------------------------------------------------------------------------
(* Properties of the tree iterator (SpecLsm) *)

\* The positions of emitted at which get() returned a record.
Returned == {i \in 1..Len(emitted) : emitted[i] # None}

\* C1: after seek(k), the keys get() returns over the following advances never
\* decrease, and none of them is less than k.
C1_KeysAscendFromSeekKey ==
    lsmOp.op # "none"
        => \A i \in Returned :
              /\ BytesLeq(lsmOp.key, emitted[i][1].key)
              /\ \A j \in Returned :
                    j < i => BytesLeq(emitted[j][1].key, emitted[i][1].key)

\* A seek to "b" followed by records of both levels with a growing key.
C1_Witness ==
    /\ lsmOp.op = "advance"
    /\ lsmOp.key = <<98>>
    /\ Len(emitted) >= 3
    /\ {1, 2, 3} \subseteq Returned
    /\ BytesLess(emitted[1][1].key, emitted[3][1].key)
    /\ {emitted[i][1].level : i \in {1, 2, 3}} = LevelIds

\* C2: records of one key come out in ascending order of their level, with
\* no record of another key between them.
C2_EqualKeysByLevel ==
    \A i \in Returned : \A j \in Returned :
        (i < j /\ emitted[i][1].key = emitted[j][1].key)
            => /\ emitted[i][1].level < emitted[j][1].level
               /\ \A m \in i..j : m \in Returned /\ emitted[m][1].key = emitted[i][1].key

\* A key held by both levels came out of level 0, then of level 1, and a
\* greater key after them.
C2_Witness ==
    \E i \in Returned :
        /\ i + 2 \in Returned
        /\ i + 1 \in Returned
        /\ emitted[i][1].key = emitted[i + 1][1].key
        /\ emitted[i][1].level = 0
        /\ emitted[i + 1][1].level = 1
        /\ BytesLess(emitted[i][1].key, emitted[i + 2][1].key)

\* C3: no record is returned twice, and once get() returns None every record
\* of every level whose key is >= the seek key has been returned.
C3_EmitsEveryRecordOnce ==
    (lsmOp.op # "none" /\ ~lsmOp.err)
        => /\ \A i \in Returned : \A j \in Returned : i # j => emitted[i] # emitted[j]
           /\ \A i \in Returned : emitted[i][1] \in AllRecords
           /\ (emitted # <<>> /\ emitted[Len(emitted)] = None)
                 => \A r \in AllRecords :
                       BytesLeq(lsmOp.key, r.key) => \E i \in Returned : emitted[i][1] = r

----------------------------------------------------------------------------
(* Properties of the level iterator (SpecLevel) *)

\* C9: seek(k) leaves get() at the record with the smallest key >= k among
\* the records of all SSTs of the level, and at None when there is none.
C9_LevelSeekFindsSmallestAtLeast ==
    lsmOp.op = "seek"
        => /\ ~lsmOp.err
           /\ emitted = <<Entry(FirstAtLeast(LevelRecords(tree[1]), lsmOp.key), 0)>>

\* C10: every advance moves get() to the next record of the level, across
\* the end of an SST to the first record of the next, and after the last
\* record of the level get() is None and stays None.
C10_LevelAdvanceInOrder ==
    LET recs == LevelRecords(tree[1])
        pos(e) == CHOOSE p \in 1..Len(recs) : recs[p].key = e[1].key
    IN \A i \in Returned :
          /\ \E p \in 1..Len(recs) : Entry(Some(recs[p]), 0) = emitted[i]
          /\ i < Len(emitted)
                => emitted[i + 1] = IF pos(emitted[i]) < Len(recs)
                                    THEN Entry(Some(recs[pos(emitted[i]) + 1]), 0)
                                    ELSE None
          /\ pos(emitted[i]) = Len(recs)
                => \A j \in (i + 1)..Len(emitted) : emitted[j] = None

----------------------------------------------------------------------------
(* Properties of the file stores (SpecFs) *)

\* This step is the return of an open_for_read(id) call.
ReadReturns(id) ==
    /\ fsLog'.read.id = id
    /\ \/ fsLog'.issued = fsLog.issued + 1 /\ pending' = pending
       \/ pending'[id] < pending[id]

\* C11: in both stores, an open_for_read(id) that runs after a blob of at
\* least one byte was written and closed under id (no writer having reopened
\* a published identifier) succeeds, and its reader yields the concatenation
\* of the written bytes, so that several opens yield identical bytes.
C11_ReadYieldsWrittenBytes ==
    [][\A id \in StoreIds :
           (/\ ReadReturns(id)
            /\ fsLog'.read.fresh
            /\ ~fsLog.reused
            /\ fsLog.status[id] = "published"
            /\ fsLog.published[id] # Some(<<>>))
           => /\ fsLog'.read.ok
              /\ fsLog'.read.bytes = fsLog.published[id][1]]_vars

\* C12: in both stores, an open_for_read(id) that is issued after
\* open_for_write(id) and returns before flush_and_close, no blob being
\* published under id, returns an error and installs nothing in the map or
\* pool.
C12_UnflushedBlobInvisible ==
    [][\A id \in StoreIds :
           (/\ ReadReturns(id)
            /\ fsLog'.read.fresh
            /\ fwriter # None
            /\ fwriter[1].identifier = id
            /\ fsLog.published[id] = None)
           => /\ ~fsLog'.read.ok
              /\ open_files'[id] = None]_vars

\* C13: while an identifier was opened for write once only and no call ran
\* on the store during the write, every reader that is held yields the bytes
\* it yielded when its mapping was made, whatever open_for_read, delete and
\* reader drops have run since, and the file of the local store is still
\* the file at its path.
C13_HeldReaderKeepsItsFile ==
    (fsLog.opened <= 1 /\ ~fsLog.overlap) =>
        \A h \in ArcSlots :
            arcs[h].readers > 0 =>
                /\ Deref(arcs, files, h) = arcs[h].got
                /\ fsKind = "local" => disk[arcs[h].id] = arcs[h].inode

\* C14: in both stores, an open_for_read(id) that is issued after delete(id)
\* returned, no writer having opened id since, returns an error.
C14_ReadAfterDeleteFails ==
    [][\A id \in StoreIds :
           (/\ ReadReturns(id)
            /\ fsLog'.read.fresh
            /\ fsLog.status[id] \in {"deleted", "removed"})
           => ~fsLog'.read.ok]_vars

\* C15: once a published blob was deleted and no reader of the identifier is
\* held or being opened, its storage is gone: the file of the local store is
\* unlinked and no Arc of the identifier is left.
C15_DeletedBlobIsReclaimed ==
    \A id \in StoreIds :
        (/\ fsLog.status[id] = "deleted"
         /\ ~fsLog.reused
         /\ pending[id] = 0
         /\ \A h \in ArcSlots : arcs[h].id = id => arcs[h].readers = 0)
        => /\ disk[id] = 0
           /\ \A h \in ArcSlots : arcs[h].id # id

\* C16: the bytes a held reader yields never change, whatever the callers
\* do after the reader was returned, another open_for_write on the
\* identifier included.
C16_PublishedBytesNeverChange ==
    \A h \in ArcSlots :
        arcs[h].readers > 0 => Deref(arcs, files, h) = arcs[h].got

\* C17: the drop of a writer that was not flushed panics, and an
\* open_for_read of its identifier issued afterwards returns an error when
\* no blob was published under the identifier before.
C17_DroppedWriterPublishesNothing ==
    [][/\ (/\ fwriter # None
           /\ fwriter' = None
           /\ fsLog'.status[fwriter[1].identifier] = "abandoned") => fsLog'.panicked
       /\ \A id \in StoreIds :
              (/\ ReadReturns(id)
               /\ fsLog'.read.fresh
               /\ fsLog.status[id] = "abandoned"
               /\ fsLog.published[id] = None)
              => ~fsLog'.read.ok]_vars

\* C18: an open_for_read(id) that runs while no blob is published under id
\* returns an error and leaves the map or pool and the Arc values as they
\* were.
C18_MissingBlobLeavesStoreUnchanged ==
    [][\A id \in StoreIds :
           (/\ ReadReturns(id)
            /\ fsLog'.read.fresh
            /\ fsLog.published[id] = None)
           => /\ ~fsLog'.read.ok
              /\ open_files' = open_files
              /\ arcs' = arcs]_vars

\* C20: in the local store at most one mapping of an identifier is live and
\* not flagged for deletion, it is the mapping in the pool, and so the
\* readers that concurrent open_for_read calls return share it and yield
\* identical bytes.
C20_OneSharedMapping ==
    fsKind = "local" =>
        \A id \in StoreIds : \A h \in ArcSlots :
            (arcs[h].live /\ arcs[h].id = id /\ ~arcs[h].delete)
            => open_files[id] = Some(h)

\* Two open_for_read calls missed under the read lock; one installed the
\* mapping, the other found it under the write lock, and both readers are
\* held.
C20_Witness ==
    /\ fsKind = "local"
    /\ fsLog.read.raced
    /\ fsLog.read.ok
    /\ ~fsLog.overlap
    /\ fsLog.status[fsLog.read.id] = "published"
    /\ open_files[fsLog.read.id] = Some(fsLog.read.arc)
    /\ arcs[fsLog.read.arc].readers = 2
    /\ fsLog.read.bytes = fsLog.published[fsLog.read.id][1]
    /\ Len(fsLog.read.bytes) = MaxBlobLen

----------------------------------------------------------------------------
(* Properties of the order of the pushes (SpecSst) *)

\* C19: the records push_record has written into the file have strictly
\* ascending keys: a push of a key that is not greater than the key pushed
\* before it is refused and writes nothing.
C19_PushedKeysAscend ==
    Ascending(pushed)


----------------------------------------------------------------------------
(* Properties of varint.rs and of CounterRecord::merge (SpecCalc) *)

\* The sum of the deltas in nine bytes, which holds every sum of the
\* streams looked at, and whether it is an i64.
SignExtend9(x) == <<IF x[1] >= 128 THEN 255 ELSE 0>> \o x

RECURSIVE WideSum(_, _)
WideSum(deltas, n) ==
    IF n > Len(deltas) THEN SignExtend9(I64Of(0))
    ELSE wrapping_add(SignExtend9(deltas[n]), WideSum(deltas, n + 1))

SumFits(deltas) == WideSum(deltas, 1) = SignExtend9(Tail(WideSum(deltas, 1)))

\* C23: CounterRecord::merge over the encoded deltas of one key, whose sum
\* fits in i64, writes the signed varint of the sum and returns keep = true
\* when the sum is not zero, and writes nothing and returns keep = false
\* when the sum is zero.
C23_MergeWritesSum ==
    (calc.op = "merged" /\ SumFits(calc.args)) =>
        LET sum == Tail(WideSum(calc.args, 1))
        IN /\ ~calc.panic
           /\ sum # I64Of(0) => (calc.keep /\ calc.out = <<write_varint_signed(sum)>>)
           /\ sum = I64Of(0) => (~calc.keep /\ calc.out = <<>>)

\* C24: read_varint_unsigned of the bytes of write_varint_unsigned(v) is v
\* for a u32 v, and read_varint_signed of the bytes of write_varint_signed(v)
\* is v for an i64 v, and each read leaves no byte of what was written.
C24_VarintRoundTrip ==
    calc.op \in {"read_unsigned", "read_signed"} =>
        /\ ~calc.panic
        /\ calc.val = calc.args[1]
        /\ calc.rem = <<>>

\* -u32::MAX was written as the tag 1 and four bytes, and read back.
C24_Witness ==
    /\ calc.op = "read_signed"
    /\ calc.args = <<I64Neg(U32_MAX)>>
    /\ calc.out = <<<<1, 0, 0, 0, 0>>>>
    /\ calc.val = I64Neg(U32_MAX)

\* C25: for two u32 values a < b the bytes of write_varint_unsigned(a) are
\* lexicographically less than those of write_varint_unsigned(b), and for
\* two i64 values a < b the bytes of write_varint_signed(a) are
\* lexicographically less than those of write_varint_signed(b).
C25_VarintKeepsOrder ==
    /\ (calc.op = "wrote_unsigned" /\ BytesLess(calc.args[1], calc.args[2]))
            => BytesLess(calc.out[1], calc.out[2])
    /\ (calc.op = "wrote_signed" /\ I64Less(calc.args[1], calc.args[2]))
            => BytesLess(calc.out[1], calc.out[2])

\* -256 and -255 were written, with different tags, and 65535 and 65536.
C25_Witness ==
    \/ /\ calc.op = "wrote_signed"
       /\ calc.args = <<I64Of(-256), I64Of(-255)>>
       /\ calc.out = <<<<2, 254, 255>>, <<3, 0>>>>
    \/ /\ calc.op = "wrote_unsigned"
       /\ calc.args = <<<<0, 0, 255, 255>>, <<0, 1, 0, 0>>>>
       /\ calc.out = <<<<253, 255, 255>>, <<254, 0, 1, 0, 0>>>>


----------------------------------------------------------------------------
(* Properties of the buffered writer (SpecBuf) *)

\* The records the buffered writer was given
BufRecords == kv_iter(bufw.bytes_buffer, bufw.pointers)

UniqueKeys(records) ==
    \A i, j \in 1..Len(records) : records[i].key = records[j].key => i = j

\* Record number j of records of unique keys in ascending order of the keys
RankedRecord(records, j) ==
    records[CHOOSE i \in 1..Len(records) :
               Cardinality({m \in 1..Len(records) :
                               BytesLess(records[m].key, records[i].key)}) = j - 1]

\* C21: for pushes of unique keys in any order (NoopMerger), finish returns
\* an SstInfo whose min_record is the smallest and whose max_record is the
\* largest pushed key, and the scan of the file from the empty key returns
\* the pushed records in ascending order of their keys, each with its
\* value, and then None.
C21_BufferedScanIsSorted ==
    (plan.kind = "buf" /\ wstate # "open" /\ UniqueKeys(BufRecords)) =>
        /\ wstate = "finished"
        /\ BufRecords # <<>> =>
              bufw.info = Some([min_record |-> RankedRecord(BufRecords, 1).key,
                                max_record |-> RankedRecord(BufRecords, Len(BufRecords)).key])
        /\ lastOp.op # "none" =>
              /\ ~reader.panic
              /\ SstReader_get(reader) =
                    IF lastOp.n + 1 <= Len(BufRecords)
                    THEN Some(RankedRecord(BufRecords, lastOp.n + 1)) ELSE None

\* C22: the records of one key reach the merger as one run, and within the
\* run a record pushed later comes before a record pushed earlier.
C22_EqualKeysNewestFirst ==
    (plan.kind = "buf" /\ wstate # "open") =>
        \A i, j \in 1..Len(bufw.merged) :
            (i < j /\ bufw.merged[i].key = bufw.merged[j].key) =>
                /\ \A m \in i..j : bufw.merged[m].key = bufw.merged[i].key
                /\ bufw.pointers[i][1] >= bufw.pointers[j][1]


----------------------------------------------------------------------------
(* Properties of the iterators over a store that lost an SST (SpecGone) *)

\* The SST a seek of a level has to open: the first whose max_record is not
\* below the key.
SeekNeeds(ssts, key) ==
    LET at == {i \in 1..Len(ssts) : ~BytesLess(ssts[i].max_record, key)}
    IN IF at = {} THEN None
       ELSE Some(ssts[CHOOSE i \in at : \A j \in at : i <= j].identifier)

\* The SST an advance of a level has to open: the next one, when the reader
\* of the current one runs off its end.
AdvanceNeeds(ssts, self) ==
    IF self.current_sst = None THEN None
    ELSE LET cur == self.current_sst[1]
         IN IF SstReader_get(SstReader_advance(cur.data, cur.reader)) = None
                 /\ cur.idx + 1 < Len(ssts)
            THEN Some(ssts[cur.idx + 2].identifier)
            ELSE None

\* open_for_read of the needed SST fails
Missing(needs) == needs # None /\ needs[1] \notin DOMAIN store

\* C26: a seek or an advance of a level iterator or of a tree iterator that
\* has to open an SST the store cannot open returns the error; it does not
\* return Ok with the iterator at the end of the data.
C26_OpenFailureIsReturned ==
    [][store' = store =>
         /\ (Len(tree) = 1 /\ lsmOp'.op = "seek"
               /\ Missing(SeekNeeds(tree[1], lsmOp'.key))) => lsmOp'.err
         /\ (Len(tree) = 1 /\ lsmOp'.op = "advance"
               /\ Missing(AdvanceNeeds(tree[1], iter.levels[1]))) => lsmOp'.err
         /\ (Len(tree) = 2 /\ lsmOp'.op = "seek"
               /\ \E l \in 1..Len(tree) : Missing(SeekNeeds(tree[l], lsmOp'.key)))
                  => lsmOp'.err
         /\ (Len(tree) = 2 /\ lsmOp'.op = "advance" /\ iter.heap # {}
               /\ Missing(AdvanceNeeds(tree[heap_peek(iter.heap)[1].level + 1],
                                       iter.levels[heap_peek(iter.heap)[1].level + 1])))
                  => lsmOp'.err]_vars

\* An advance of a tree iterator returned the error of an SST that is gone.
C26_Witness ==
    /\ Len(tree) = 2
    /\ lsmOp.op = "advance"
    /\ lsmOp.err
    /\ DOMAIN store # DOMAIN StoreOf(tree)


----------------------------------------------------------------------------
(* Properties of the search tree in the finished file (SpecSst) *)

\* The root pointer in the footer, and the fields of the search page at
\* offset p: the number of children, the pivot i and the pointer of the
\* child i (from 1).
RootPointer(file) == I32FromBe(file, Len(file) - 6)

PageChildren(file, p) == file[p + 1]

PagePivot(file, p, i) ==
    LET at == I32FromBe(file, p + 1 + (4 * (i - 1)))
        len == read_varint_unsigned(file, at)
    IN Slice(file, len.rest, len.rest + len.val)

PageChild(file, p, i) ==
    I32FromBe(file, p + 1 + (4 * (PageChildren(file, p) - 1)) + (4 * (i - 1)))

\* The number (from 1) of the pushed record that starts at offset off, for
\* pushes of ascending keys.
RecordAt(file, off) ==
    LET h == read_lengths(file, off)
        key == Slice(file, h.start, h.start + h.key_len)
    IN CHOOSE i \in 1..Len(pushed) : pushed[i].key = key

\* The smallest and the greatest key below a pointer: a negative pointer is
\* a leaf of up to LOWER_LEAF_SIZE records.
RECURSIVE SubtreeMin(_, _)
SubtreeMin(file, ptr) ==
    IF ptr < 0 THEN pushed[RecordAt(file, 0 - ptr)].key
    ELSE SubtreeMin(file, PageChild(file, ptr, 1))

RECURSIVE SubtreeMax(_, _)
SubtreeMax(file, ptr) ==
    IF ptr < 0
    THEN pushed[Min(RecordAt(file, 0 - ptr) + LOWER_LEAF_SIZE - 1, Len(pushed))].key
    ELSE SubtreeMax(file, PageChild(file, ptr, PageChildren(file, ptr)))

\* The offsets of the search pages at and below a pointer
RECURSIVE SubtreePages(_, _)
SubtreePages(file, ptr) ==
    IF ptr < 0 THEN {}
    ELSE {ptr} \cup UNION {SubtreePages(file, PageChild(file, ptr, i)) :
                              i \in 1..PageChildren(file, ptr)}

\* The pivot between the subtrees whose greatest and smallest keys are
\* given is above the left, not above the right, and the shortest such
\* prefix of the right one.
PivotSplits(pivot, left_max, right_min) ==
    /\ BytesLess(left_max, pivot)
    /\ BytesLeq(pivot, right_min)
    /\ pivot = SubSeq(right_min, 1, common_prefix_len(left_max, right_min) + 1)

\* C27: in every search page of the finished file, at every level of the
\* tree, the pivot between the children i and i+1 is greater than every key
\* below child i and at most every key below child i+1, and is the prefix
\* of the smallest key below child i+1 of length common_prefix_len(greatest
\* key below child i, that smallest key) + 1.
C27_PivotsSplitSubtrees ==
    (wstate = "finished" /\ pushed # <<>> /\ Ascending(pushed)) =>
        \A p \in SubtreePages(writer.file, RootPointer(writer.file)) :
            \A i \in 1..(PageChildren(writer.file, p) - 1) :
                PivotSplits(PagePivot(writer.file, p, i),
                            SubtreeMax(writer.file, PageChild(writer.file, p, i)),
                            SubtreeMin(writer.file, PageChild(writer.file, p, i + 1)))


\* n / d rounded up
CeilDiv(n, d) == (n + d - 1) \div d

\* C28: a chunk of exactly one child writes no bytes and passes exactly
\* that child's descriptor, unchanged, to the next level of the tree, and a
\* search page of a finished file has between 2 and SEARCH_TREE_SIZE
\* children.  The chunk looked at is the last leaf of a writer that was
\* finished with one leaf more than a multiple of SEARCH_TREE_SIZE.
C28_SingleChildIsPassedUp ==
    /\ (wstate # "open" /\ Len(finish_pages(writer)) > 1
          /\ Len(finish_pages(writer)) % SEARCH_TREE_SIZE = 1) =>
            LET last == finish_pages(writer)[Len(finish_pages(writer))]
                out == write_chunk(<<last>>, HEADER, <<>>)
            IN /\ ~out.panic
               /\ out.file = HEADER
               /\ out.pages = <<last>>
    /\ (wstate = "finished" /\ pushed # <<>>) =>
            \A p \in SubtreePages(writer.file, RootPointer(writer.file)) :
                /\ PageChildren(writer.file, p) >= 2
                /\ PageChildren(writer.file, p) <= SEARCH_TREE_SIZE

\* The bytes the records lo..hi of the pushes take in the data section
RECURSIVE RecordsSize(_, _)
RecordsSize(lo, hi) ==
    IF lo > hi THEN 0
    ELSE IF lo = hi
    THEN Len(write_varint_unsigned(Len(pushed[lo].key)))
           + Len(write_varint_unsigned(Len(pushed[lo].value)))
           + Len(pushed[lo].key) + Len(pushed[lo].value)
    ELSE RecordsSize(lo, (lo + hi) \div 2) + RecordsSize(((lo + hi) \div 2) + 1, hi)

\* The file when finish calls write_search_tree: the header, the records
\* and the terminator.
DataSection ==
    SubSeq(writer.file, 1, Len(HEADER) + RecordsSize(1, Len(pushed)) + 2)

\* The numbers of descriptors write_search_tree is called with, level by
\* level, up to a level that panics, and the root it returns.
RECURSIVE TreeLevels(_, _)

TreeLevelsAfter(next) ==
    IF next.panic THEN <<0>> ELSE TreeLevels(next.pages, next.file)

TreeLevels(children, file) ==
    IF Len(children) <= 1 THEN <<Len(children)>>
    ELSE <<Len(children)>> \o
           TreeLevelsAfter(write_chunks(children, 1,
                                        [file |-> file, pages |-> <<>>, panic |-> FALSE]))

\* C29: write_search_tree comes to an end for every list of one or more
\* descriptors: a level of n > 1 descriptors passes ceil(n /
\* SEARCH_TREE_SIZE) descriptors, fewer than n, to the next, the last level
\* has exactly one, and its pointer is the root pointer in the footer.
C29_TreeShrinksToRoot ==
    (wstate # "open" /\ pushed # <<>>) =>
        LET levels == TreeLevels(finish_pages(writer), DataSection)
        IN /\ wstate = "finished"
           /\ levels[Len(levels)] = 1
           /\ \A k \in 1..(Len(levels) - 1) :
                 /\ levels[k + 1] < levels[k]
                 /\ levels[k + 1] = CeilDiv(levels[k], SEARCH_TREE_SIZE)
           /\ RootPointer(writer.file)
                 = write_search_tree(finish_pages(writer), DataSection).root

\* C30: at finish the leaf descriptor number j (from 0) points at the
\* negated offset at which the record number j * LOWER_LEAF_SIZE starts
\* (the end of the header for j = 0, and the start of the leaf before plus
\* the bytes of its LOWER_LEAF_SIZE records after that), its min is the key
\* of that record and its max the key of the last record of its run, also
\* for a last run of fewer than LOWER_LEAF_SIZE records.
C30_LeafDescriptors ==
    (wstate # "open" /\ lastOp.op = "none") =>
        /\ Len(finish_pages(writer)) = CeilDiv(Len(pushed), LOWER_LEAF_SIZE)
        /\ \A j \in 0..(Len(finish_pages(writer)) - 1) :
              LET page == finish_pages(writer)[j + 1]
                  first == (j * LOWER_LEAF_SIZE) + 1
                  last == Min((j + 1) * LOWER_LEAF_SIZE, Len(pushed))
              IN /\ page.pointer =
                       IF j = 0 THEN 0 - Len(HEADER)
                       ELSE finish_pages(writer)[j].pointer
                              - RecordsSize(first - LOWER_LEAF_SIZE, first - 1)
                 /\ page.min = pushed[first].key
                 /\ page.max = pushed[last].key

\* Seventeen records were pushed and the writer finished: the second leaf
\* holds one record.
C30_Witness ==
    /\ wstate = "finished"
    /\ Len(pushed) = LOWER_LEAF_SIZE + 1
    /\ Len(finish_pages(writer)) = 2
    /\ finish_pages(writer)[2].min = pushed[LOWER_LEAF_SIZE + 1].key
    /\ finish_pages(writer)[2].max = pushed[LOWER_LEAF_SIZE + 1].key


----------------------------------------------------------------------------
(* Properties of the pointers in the finished file (SpecSst) *)

\* Whether one of the pushed records lo..hi, the first of which starts at
\* base, starts at the offset off.
RECURSIVE IsRecordStart(_, _, _, _)
IsRecordStart(off, lo, hi, base) ==
    IF lo >= hi THEN lo = hi /\ off = base
    ELSE IF off < base + RecordsSize(lo, (lo + hi) \div 2)
    THEN IsRecordStart(off, lo, (lo + hi) \div 2, base)
    ELSE IsRecordStart(off, ((lo + hi) \div 2) + 1, hi,
                       base + RecordsSize(lo, (lo + hi) \div 2))

\* A negative pointer is the negation of the offset of a pushed record, or
\* of the terminator in a file without records.
DataPointerIsSound(ptr) ==
    IF pushed = <<>> THEN 0 - ptr = Len(HEADER)
    ELSE IsRecordStart(0 - ptr, 1, Len(pushed), Len(HEADER))

\* The pivot pointer i of the page at p, and the offset after the
\* length-prefixed bytes at offset at.
PagePivotPointer(file, p, i) == I32FromBe(file, p + 1 + (4 * (i - 1)))

PrefixedEnd(file, at) ==
    read_varint_unsigned(file, at).rest + read_varint_unsigned(file, at).val

\* The page at p lies in the tree section from..to of the file; its pivot
\* pointers are the offsets of length-prefixed pivots that lie one after
\* the other and end where the page starts; each child pointer is a sound
\* data pointer or the offset of a sound page written before the pivots.
RECURSIVE PageIsSound(_, _, _, _)
PageIsSound(file, p, from, to) ==
    /\ p >= from
    /\ p < to
    /\ PageChildren(file, p) >= 1
    /\ p + 1 + (4 * ((2 * PageChildren(file, p)) - 1)) <= to
    /\ \A i \in 1..(PageChildren(file, p) - 1) :
          /\ PagePivotPointer(file, p, i) >= from
          /\ PagePivotPointer(file, p, i) < p
          /\ PrefixedEnd(file, PagePivotPointer(file, p, i))
                = IF i = PageChildren(file, p) - 1 THEN p
                  ELSE PagePivotPointer(file, p, i + 1)
    /\ \A i \in 1..PageChildren(file, p) :
          IF PageChild(file, p, i) < 0
          THEN DataPointerIsSound(PageChild(file, p, i))
          ELSE /\ PageChild(file, p, i) < p
               /\ PageChildren(file, p) > 1
                     => PageChild(file, p, i) < PagePivotPointer(file, p, 1)
               /\ PageIsSound(file, PageChild(file, p, i), from, to)

\* C31: in a file finish produced, the root pointer and every child pointer
\* of every search page is negative and the negation of the offset of a
\* record of the data section (of the terminator in a file without
\* records), or the offset of the child count of a search page written
\* earlier in the file, and every pivot pointer is the offset of a
\* length-prefixed pivot written before its page; none points into the
\* header, the footer or between those places.
C31_PointersAreSound ==
    (wstate = "finished" /\ lastOp.op = "none") =>
        IF RootPointer(writer.file) < 0
        THEN DataPointerIsSound(RootPointer(writer.file))
        ELSE PageIsSound(writer.file, RootPointer(writer.file),
                         Len(DataSection), Len(writer.file) - 6)

\* A finished file whose root page has a search page for its first child
\* and a leaf for the last child of that page.
C31_Witness ==
    /\ wstate = "finished"
    /\ lastOp.op = "none"
    /\ RootPointer(writer.file) >= 0
    /\ PageChild(writer.file, RootPointer(writer.file), 1) >= 0
    /\ PageChild(writer.file, PageChild(writer.file, RootPointer(writer.file), 1),
                 SEARCH_TREE_SIZE) < 0


----------------------------------------------------------------------------
(* Properties of binary_search (SpecCalc) *)

\* C32: for a search page with size children, 1 <= size <= 64, and ascending
\* pivots, binary_search terminates and returns the child index in
\* [0, size) that equals the number of pivots <= the search key (a pivot
\* equal to the key sends the search right), and it calls f only on pivot
\* indices in [0, size - 1).
C32_BinarySearchCountsPivots ==
    calc.op = "searched" =>
        /\ calc.val[1] = calc.args[2] + calc.args[3]
        /\ calc.val[1] \in 0..(calc.args[1] - 1)
        /\ Len(calc.out) < calc.args[1]
        /\ \A n \in 1..Len(calc.out) : calc.out[n] \in 0..(calc.args[1] - 2)

\* A full page whose last pivot is the key: the search ends in the last child.
C32_Witness ==
    /\ calc.op = "searched"
    /\ calc.args = <<SEARCH_TREE_SIZE, SEARCH_TREE_SIZE - 2, 1>>
    /\ calc.val = <<SEARCH_TREE_SIZE - 1>>
    /\ Len(calc.out) > 1


----------------------------------------------------------------------------
(* Properties of the heap of the tree iterator (SpecLsm, SpecGone) *)

\* The levels (from 0) whose level iterator has a current record
LevelsWithRecord(self) ==
    {l \in 0..(Len(self.levels) - 1) : LsmLevelIter_get(self.levels[l + 1]) # None}

\* The heap holds one entry for each level with a current record and none for
\* another level, and each entry's key is the current key of its level, held
\* in the view the level's reader holds.
HeapMatchesLevels(self) ==
    /\ {e.level : e \in self.heap} = LevelsWithRecord(self)
    /\ Cardinality(self.heap) = Cardinality(LevelsWithRecord(self))
    /\ \A e \in self.heap :
          /\ e.live
          /\ e.key = LsmLevelIter_get(self.levels[e.level + 1])[1].key

\* No entry of the heap ever points into a view its level has dropped, so
\* the comparisons of the heap never read freed bytes.
HeapKeysAreLive == \A e \in iter.heap : e.live

\* C33: after every successful LsmIter.seek or advance the heap holds exactly
\* one entry for each level whose level iterator has a current record and no
\* entry for another level, and each entry's key equals the current key of
\* its level's iterator, read from the view the level's reader holds.
C33_HeapMatchesLevels ==
    (Len(tree) = 2 /\ lsmOp.op \in {"seek", "advance"} /\ ~lsmOp.err) =>
        HeapMatchesLevels(iter)


\* C34: a seek or advance of the tree iterator that returns an error leaves
\* the iterator's position unchanged: get() returns the same record after
\* the failed call as before it.
C34_FailedCallKeepsPosition ==
    [][(Len(tree) = 2 /\ lsmOp'.err) => LsmIter_get(iter') = LsmIter_get(iter)]_vars


----------------------------------------------------------------------------
(* Properties of delete (SpecFs) *)

\* C35: in both stores, delete(id) on an identifier that was never written
\* or was already deleted changes nothing: the map or pool, the Arc values
\* and views, and the files of the store are as they were before the call,
\* so that a second delete(id) does no more than the first.
C35_DeleteOfUnknownChangesNothing ==
    [][\A id \in StoreIds :
           (delete(id) /\ fsLog.status[id] \in {"none", "deleted", "removed"})
           => /\ open_files' = open_files
              /\ arcs' = arcs
              /\ disk' = disk
              /\ files' = files]_vars


----------------------------------------------------------------------------
(* Properties of the terminator of the data section (SpecSst) *)

\* The offset at which the record pushed last starts in the file
LastRecordStart == Len(writer.file) - RecordsSize(Len(pushed), Len(pushed))

\* C36: no record push_record has accepted, a first record of an empty key
\* and an empty value included, is written as the two bytes 0,0 of the
\* terminator at its record boundary.
C36_NoRecordIsTheTerminator ==
    (wstate = "open" /\ pushed # <<>>) =>
        Slice(writer.file, LastRecordStart, LastRecordStart + 2) # <<0, 0>>


----------------------------------------------------------------------------
(* Properties of the end of a level (SpecLevel) *)

\* C37: in a level that holds a zero-record SST next to SSTs with records,
\* get() of the level iterator is None after a seek or an advance only when
\* no SST of the level holds a record at or after the iterator's position:
\* every record of the level with a key >= the seek key was returned before.
C37_NoneOnlyAtEndOfLevel ==
    (lsmOp.op # "none" /\ ~lsmOp.err /\ emitted # <<>> /\ emitted[Len(emitted)] = None) =>
        \A n \in 1..Len(LevelRecords(tree[1])) :
            \/ BytesLess(LevelRecords(tree[1])[n].key, lsmOp.key)
            \/ \E i \in Returned : emitted[i][1].key = LevelRecords(tree[1])[n].key

====
